---- MODULE Spec2Model ----
(***************************************************************************)
(* Model of the streaming response accumulator of anthropic-go             *)
(* (stream.go): ResponseAccumulator folds a sequence of typed events into  *)
(* one Response.  Content blocks are heap objects referenced both from the *)
(* index map (contentBlocks) and, once finalized, from Response.Content,   *)
(* so the model keeps an explicit heap of blocks and stores references.    *)
(***************************************************************************)
EXTENDS Integers, Sequences, FiniteSets, TLC

(***************************************************************************)
(* Bounds of the model.                                                    *)
(***************************************************************************)
\* Number of AddEvent calls explored on one accumulator, per scenario (the
\* scenarios are the event alphabets defined below).
MaxLifecycleEvents == 3
MaxMergeEvents == 4
MaxOrderingEvents == 5
MaxFramingReads == 3
MaxPrefillReads == 4
MaxClosingReads == 3
MaxCloseCalls == 2
MaxRetriesOption == 2
MaxBlocks == 4
MaxClientRetries == 1
MaxCitations == 2

(***************************************************************************)
(* Optional (pointer) values: None is a nil pointer, Some(x) points to x.  *)
(***************************************************************************)
None == <<>>
Some(x) == <<x>>

(***************************************************************************)
(* Usage counters (types.go).                                              *)
(***************************************************************************)
MkUsage(i, o, cc, cr) ==
    [InputTokens |-> i, OutputTokens |-> o,
     CacheCreationInputTokens |-> cc, CacheReadInputTokens |-> cr]

ZeroUsage == MkUsage(0, 0, 0, 0)

\* Usage payloads an event may carry.
Usages == {MkUsage(1, 2, 3, 4)}

(***************************************************************************)
(* Content blocks (response.go).  One record shape for every variant; the  *)
(* fields a variant does not own stay empty.                               *)
(***************************************************************************)
MkBlock(kind, text, id, name, input, thinking, signature) ==
    [kind |-> kind, Text |-> text, ID |-> id, Name |-> name, Input |-> input,
     Thinking |-> thinking, Signature |-> signature]

TextContent(text) == MkBlock("text", text, "", "", "", "", "")
ToolUseContent(id, name) == MkBlock("tool_use", "", id, name, "", "", "")
ThinkingContent(thinking, signature) ==
    MkBlock("thinking", "", "", "", "", thinking, signature)
RedactedThinkingContent == MkBlock("redacted_thinking", "", "", "", "", "", "")

(***************************************************************************)
(* Event payloads.                                                         *)
(***************************************************************************)
\* EventContentBlock
MkContentBlock(type, text, id, name, input, thinking, signature) ==
    [Type |-> type, Text |-> text, ID |-> id, Name |-> name, Input |-> input,
     Thinking |-> thinking, Signature |-> signature]

ContentBlocks ==
    { MkContentBlock("text", "Hello", "", "", "", "", ""),
      MkContentBlock("tool_use", "", "tu_1", "search", "{}", "", ""),
      MkContentBlock("thinking", "", "", "", "", "Hm", "s0"),
      MkContentBlock("redacted_thinking", "", "", "", "", "", ""),
      MkContentBlock("server_tool_use", "", "st_1", "web_search", "", "", "") }

\* EventDelta
MkDelta(type, text, stopReason, stopSequence, partialJSON, thinking, signature) ==
    [Type |-> type, Text |-> text, StopReason |-> stopReason,
     StopSequence |-> stopSequence, PartialJSON |-> partialJSON,
     Thinking |-> thinking, Signature |-> signature]

BlockDeltas ==
    { MkDelta("text_delta", " ", "", "", "", "", ""),
      MkDelta("text_delta", "world", "", "", "", "", ""),
      MkDelta("input_json_delta", "", "", "", "{\"q\":", "", ""),
      MkDelta("input_json_delta", "", "", "", "1}", "", ""),
      MkDelta("thinking_delta", "", "", "", "", "..", ""),
      MkDelta("signature_delta", "", "", "", "", "", "Sg"),
      MkDelta("signature_delta", "", "", "", "", "x", "Sg"),
      MkDelta("citations_delta", "", "", "", "", "", "") }

MessageDeltas ==
    { MkDelta("", "", sr, ss, "", "", "") :
        sr \in {"", "end_turn", "max_tokens"}, ss \in {"", "END"} }

\* Response snapshots carried by message_start.  Content holds block values;
\* they become heap objects when the snapshot is adopted.
MkResponse(id, role, content, stopReason, stopSequence, usage) ==
    [ID |-> id, Role |-> role, Content |-> content, StopReason |-> stopReason,
     StopSequence |-> stopSequence, Usage |-> usage]

Snapshots ==
    { MkResponse("msg_1", "assistant", <<>>, "", None, ZeroUsage),
      MkResponse("msg_2", "assistant", <<TextContent("")>>, "", None,
                 MkUsage(7, 0, 0, 0)) }

\* Event
MkEvent(type, index, message, contentBlock, delta, usage) ==
    [Type |-> type, Index |-> index, Message |-> message,
     ContentBlock |-> contentBlock, Delta |-> delta, Usage |-> usage]

Opt(S) == {None} \cup {Some(x) : x \in S}

(***************************************************************************)
(* Event alphabets.  A run draws its events from one of three alphabets,   *)
(* fixed when the accumulator is created:                                  *)
(*   lifecycle  every event type, nil and non-nil payloads, with and       *)
(*              without usage counters, over a single block index;         *)
(*   merge      every block variant and every delta type at index 0, next  *)
(*              to a text or tool-use block at index 1;                    *)
(*   ordering   starts with explicit and with missing indices over three   *)
(*              indices, with text deltas addressed to them.               *)
(* The fields a handler never reads are left nil.                          *)
(***************************************************************************)
Scenarios == {"lifecycle", "merge", "ordering"}

MaxEvents(s) ==
    CASE s = "lifecycle" -> MaxLifecycleEvents
      [] s = "merge" -> MaxMergeEvents
      [] s = "ordering" -> MaxOrderingEvents

FirstSnapshot == CHOOSE m \in Snapshots : m.ID = "msg_1"
HelloBlock == CHOOSE cb \in ContentBlocks : cb.Text = "Hello"
ToolUseBlock == CHOOSE cb \in ContentBlocks : cb.Type = "tool_use"
SpaceDelta == CHOOSE d \in BlockDeltas : d.Text = " "
JSONTailDelta == CHOOSE d \in BlockDeltas : d.PartialJSON = "1}"
CitationsDelta == CHOOSE d \in BlockDeltas : d.Type = "citations_delta"

Starts(I, CB, U) ==
    { MkEvent("content_block_start", i, None, cb, None, u) :
        i \in I, cb \in CB, u \in U }
Deltas(I, D, U) ==
    { MkEvent("content_block_delta", i, None, None, d, u) :
        i \in I, d \in D, u \in U }

MessageStartEvents(s) ==
    CASE s = "lifecycle" ->
           { MkEvent("message_start", None, m, None, None, u) :
               m \in Opt(Snapshots), u \in Opt(Usages) }
      [] s = "merge" ->
           { MkEvent("message_start", None, Some(FirstSnapshot), None, None, None) }
      [] s = "ordering" ->
           { MkEvent("message_start", None, Some(FirstSnapshot), None, None, None) }

ContentBlockStartEvents(s) ==
    CASE s = "lifecycle" -> Starts(Opt({0}), Opt({HelloBlock}), Opt(Usages))
      [] s = "merge" ->
           Starts({Some(0)}, {Some(cb) : cb \in ContentBlocks}, {None})
           \cup Starts({Some(1)}, {Some(HelloBlock), Some(ToolUseBlock)}, {None})
      [] s = "ordering" ->
           Starts(Opt({0, 1, 2}), {Some(HelloBlock), Some(ToolUseBlock)}, {None})

ContentBlockDeltaEvents(s) ==
    CASE s = "lifecycle" ->
           Deltas(Opt({0}), Opt({SpaceDelta}), Opt(Usages))
           \cup Deltas({Some(0)}, {Some(CitationsDelta)}, {Some(u) : u \in Usages})
      [] s = "merge" ->
           Deltas({Some(0)}, {Some(d) : d \in BlockDeltas}, {None})
           \cup Deltas({Some(1)}, {Some(SpaceDelta), Some(JSONTailDelta)}, {None})
      [] s = "ordering" ->
           Deltas({Some(0), Some(1), Some(2)}, {Some(SpaceDelta)}, {None})

MessageDeltaEvents(s) ==
    IF s = "lifecycle"
    THEN { MkEvent("message_delta", None, None, None, d, u) :
             d \in Opt(MessageDeltas), u \in Opt(Usages) }
    ELSE {}

MessageStopEvents(s) ==
    { MkEvent("message_stop", None, None, None, None, u) :
        u \in IF s = "lifecycle" THEN Opt(Usages) ELSE {None} }

\* ping and content_block_stop have no case in AddEvent's switch.
OtherEvents(s) ==
    IF s = "lifecycle"
    THEN { MkEvent(t, None, None, None, None, u) :
             t \in {"ping", "content_block_stop"}, u \in Opt(Usages) }
    ELSE {}

(***************************************************************************)
(* State.                                                                  *)
(***************************************************************************)
VARIABLES
    response,       \* r.response: None, or Some(Response) with Content a
                    \* sequence of block references
    contentBlocks,  \* r.contentBlocks: index -> block reference (0 = nil)
    heap,           \* block objects; a reference is a position in heap
    complete,       \* r.complete
    event,          \* the event of the last AddEvent call (None before one)
    err,            \* what the last call returned
    nEvents,        \* number of AddEvent calls so far
    scenario,       \* the alphabet this run draws its events from
    distinctStarts, \* history: every accepted content_block_start so far
                    \* carried an explicit index that no earlier one carried
    log,            \* history: per map key, the payload of the last start
                    \* stored there and the deltas accepted for it since
    usageSum,       \* history: the sum of the usage counters carried by the
                    \* events AddEvent returned nil for
    config,         \* how the reader and the iterator were constructed
    body,           \* the underlying response body
    readerErr,      \* ServerSentEventsReader.err
    iterErr,        \* StreamIterator.err
    prefill,        \* StreamIterator.prefill
    currentEvent,   \* StreamIterator.currentEvent (None for nil)
    closeOnce,      \* StreamIterator.closeOnce has run
    closeCalls,     \* the Close() calls made so far, in call order: whether
                    \* closing had not yet begun when the call was made,
                    \* whether the call had to wait, and what it returned
                    \* ("running" inside body.Close(), "waiting" in Do)
    bodyCloses,     \* number of body.Close() executions
    ret,            \* the caller's Next(): "none" before the first call,
                    \* "pending" inside its loop, else what it returned
    nReads,         \* number of ReadBytes calls so far
    raw,            \* history: the complete lines ReadBytes returned
    unterminated,   \* history: the data ReadBytes returned with its last error
    decoded,        \* history: the events the reader's Next() returned
    surfaced,       \* history: the events the iterator's Next() surfaced
    stops,          \* history: why each Next() that returned false did so
    retryConfig,    \* retry.Do: config after the options were applied
    ctxErr,         \* ctx.Err(): NilError until the context is cancelled
    attempt,        \* retry.Do: the loop variable
    lastError,      \* retry.Do: lastError
    doPC,           \* retry.Do: "call" before f(), "select" in the backoff
                    \* wait, "done" once it returned ("idle": no call)
    doRet,          \* what retry.Do returned
    nCalls,         \* history: number of calls of f
    fErr,           \* history: what the last call of f returned
    fRecoverable,   \* history: f's last error made retry.Do continue
    messages,       \* the caller's []*Message: Role, and Content as a
                    \* sequence of references into blockHeap
    blockHeap,      \* the content block objects of the caller
    given,          \* history: messages and blockHeap before the call
    call,           \* the call made on them: function and arguments
    callPC,         \* "ready", "retrying" inside retry.Do, "returned"
    callErr,        \* the error the call returned
    converted,      \* the first result of convertMessages (None for nil)
    original,       \* the content block that is serialized (None: none is)
    wire,           \* the JSON object of a block (None before there is one)
    unmarshalled,   \* what UnmarshalContent returned (None for nil)
    codecErr,       \* the error of the last json.Marshal or UnmarshalContent
    codecPC         \* "value" before json.Marshal, "wire" before
                    \* UnmarshalContent, then "decoded" or "failed"

accVars == <<response, contentBlocks, heap, complete, event, err, nEvents, scenario,
             distinctStarts, log, usageSum>>

streamVars == <<config, body, readerErr, iterErr, prefill, currentEvent, closeOnce,
                closeCalls, bodyCloses, ret, nReads, raw, unterminated, decoded, surfaced, stops>>

retryVars == <<retryConfig, ctxErr, attempt, lastError, doPC, doRet, nCalls, fErr, fRecoverable>>

clientVars == <<messages, blockHeap, given, call, callPC, callErr, converted>>

codecVars == <<original, wire, unmarshalled, codecErr, codecPC>>

vars == <<accVars, streamVars, retryVars, clientVars, codecVars>>

NilRef == 0
Ok == "nil"
Panic == "panic: nil pointer dereference"


(***************************************************************************)
(* The accumulator as one record, so that each case of AddEvent is an      *)
(* operator from the current state and the event to the state it leaves.   *)
(***************************************************************************)
Acc == [response |-> response, contentBlocks |-> contentBlocks, heap |-> heap,
        complete |-> complete, err |-> Ok]

Fail(a, msg) == [a EXCEPT !.err = msg]

\* The Response a non-nil r.response points to.
Resp(a) == a.response[1]

SetResp(a, r) == [a EXCEPT !.response = Some(r)]

(***************************************************************************)
(* message_start: adopt the snapshot and return at once.                   *)
(***************************************************************************)
\* The snapshot's content blocks become heap objects; Content refers to them.
Adopt(a, m) ==
    [a EXCEPT !.heap = a.heap \o m.Content,
              !.response = Some([m EXCEPT !.Content =
                  [k \in 1..Len(m.Content) |-> Len(a.heap) + k]])]

\* Mutant: no nil check on the snapshot; the event is accepted as it is.
messageStart_NoCheck(a, ev) ==
    IF ev.Message = None THEN a ELSE Adopt(a, ev.Message[1])

messageStart(a, ev) ==
    IF ev.Message = None
    THEN Fail(a, "invalid message start event")
    ELSE Adopt(a, ev.Message[1])

(***************************************************************************)
(* content_block_start                                                     *)
(***************************************************************************)
\* Mutant: an unrecognized discriminant gives a text block.
NewContent_UnknownAsText(cb) ==
    CASE cb.Type = "text" -> Some(TextContent(cb.Text))
      [] cb.Type = "tool_use" -> Some(ToolUseContent(cb.ID, cb.Name))
      [] cb.Type = "thinking" -> Some(ThinkingContent(cb.Thinking, cb.Signature))
      [] cb.Type = "redacted_thinking" -> Some(RedactedThinkingContent)
      [] OTHER -> Some(TextContent(cb.Text))

\* The block built from the payload's discriminant; None is the nil
\* interface value an unrecognized discriminant leaves in `content`.
NewContent(cb) ==
    CASE cb.Type = "text" -> Some(TextContent(cb.Text))
      [] cb.Type = "tool_use" -> Some(ToolUseContent(cb.ID, cb.Name))
      [] cb.Type = "thinking" -> Some(ThinkingContent(cb.Thinking, cb.Signature))
      [] cb.Type = "redacted_thinking" -> Some(RedactedThinkingContent)
      [] OTHER -> None

\* nextIndex := len(r.contentBlocks)
NextIndex(blocks) == Cardinality(DOMAIN blocks)

\* The key a content_block_start is stored at.
StartKey(blocks, index) ==
    IF index # None THEN index[1] ELSE NextIndex(blocks)

\* Mutant: a key already in the map keeps its occupant.
Store_KeepOccupant(a, key, content) ==
    IF key \in DOMAIN a.contentBlocks THEN a
    ELSE IF content = None
    THEN [a EXCEPT !.contentBlocks = (key :> NilRef) @@ a.contentBlocks]
    ELSE [a EXCEPT !.heap = Append(a.heap, content[1]),
                   !.contentBlocks = (key :> (Len(a.heap) + 1)) @@ a.contentBlocks]

\* r.contentBlocks[key] = content
Store(a, key, content) ==
    IF content = None
    THEN [a EXCEPT !.contentBlocks = (key :> NilRef) @@ a.contentBlocks]
    ELSE [a EXCEPT !.heap = Append(a.heap, content[1]),
                   !.contentBlocks = (key :> (Len(a.heap) + 1)) @@ a.contentBlocks]

contentBlockStart(a, ev) ==
    IF a.response = None THEN Fail(a, "no message start event found")
    ELSE IF ev.ContentBlock = None THEN Fail(a, "no content block found in event")
    ELSE Store(a, StartKey(a.contentBlocks, ev.Index), NewContent(ev.ContentBlock[1]))

(***************************************************************************)
(* content_block_delta                                                     *)
(***************************************************************************)
\* The dynamic type of the block a reference denotes ("nil" for NilRef).
KindOf(h, ref) == IF ref = NilRef THEN "nil" ELSE h[ref].kind

\* Mutant: "=" for "+=".
AppendText_Assign(b, d) == [b EXCEPT !.Text = d.Text]

\* textContent.Text += event.Delta.Text
AppendText(b, d) == [b EXCEPT !.Text = @ \o d.Text]

\* Mutant: the fragment goes in front of the input gathered so far.
AppendInput_Prepend(b, d) == [b EXCEPT !.Input = d.PartialJSON \o @]

\* toolUseContent.Input = append(toolUseContent.Input, PartialJSON...)
AppendInput(b, d) == [b EXCEPT !.Input = @ \o d.PartialJSON]

\* Mutant: "=" for "+=" on the signature.
AppendThinking_AssignSignature(b, d) ==
    [b EXCEPT !.Thinking = @ \o d.Thinking, !.Signature = d.Signature]

\* thinkingContent.Thinking += Delta.Thinking; .Signature += Delta.Signature
AppendThinking(b, d) ==
    [b EXCEPT !.Thinking = @ \o d.Thinking, !.Signature = @ \o d.Signature]

\* Mutant: a delta whose type does not match the block is dropped, not refused.
MergeDelta_Lenient(a, ref, d) ==
    LET kind == KindOf(a.heap, ref) IN
    CASE d.Type = "text_delta" /\ kind = "text" ->
           [a EXCEPT !.heap[ref] = AppendText(@, d)]
      [] d.Type = "input_json_delta" /\ kind = "tool_use" ->
           [a EXCEPT !.heap[ref] = AppendInput(@, d)]
      [] d.Type \in {"thinking_delta", "signature_delta"} /\ kind = "thinking" ->
           [a EXCEPT !.heap[ref] = AppendThinking(@, d)]
      [] OTHER -> a

\* Mutant: a delta type the switch has no case for is refused.
MergeDelta_RejectUnknown(a, ref, d) ==
    LET kind == KindOf(a.heap, ref) IN
    CASE d.Type = "text_delta" ->
           IF kind = "text"
           THEN [a EXCEPT !.heap[ref] = AppendText(@, d)]
           ELSE Fail(a, "in-progress block is not a text content")
      [] d.Type = "input_json_delta" ->
           IF kind = "tool_use"
           THEN [a EXCEPT !.heap[ref] = AppendInput(@, d)]
           ELSE Fail(a, "in-progress block is not a tool use content")
      [] d.Type \in {"thinking_delta", "signature_delta"} ->
           IF kind = "thinking"
           THEN [a EXCEPT !.heap[ref] = AppendThinking(@, d)]
           ELSE Fail(a, "in-progress block is not a thinking content")
      [] OTHER -> Fail(a, "unknown delta type")

\* The switch on event.Delta.Type, applied to the block at ref.
MergeDelta(a, ref, d) ==
    LET kind == KindOf(a.heap, ref) IN
    CASE d.Type = "text_delta" ->
           IF kind = "text"
           THEN [a EXCEPT !.heap[ref] = AppendText(@, d)]
           ELSE Fail(a, "in-progress block is not a text content")
      [] d.Type = "input_json_delta" ->
           IF kind = "tool_use"
           THEN [a EXCEPT !.heap[ref] = AppendInput(@, d)]
           ELSE Fail(a, "in-progress block is not a tool use content")
      [] d.Type \in {"thinking_delta", "signature_delta"} ->
           IF kind = "thinking"
           THEN [a EXCEPT !.heap[ref] = AppendThinking(@, d)]
           ELSE Fail(a, "in-progress block is not a thinking content")
      [] OTHER -> a

\* Mutant: the delta is merged into the block at the lowest stored index.
contentBlockDelta_LowestIndex(a, ev) ==
    IF a.response = None \/ ev.Delta = None \/ ev.Index = None
    THEN Fail(a, "invalid content block delta event")
    ELSE IF ev.Index[1] \notin DOMAIN a.contentBlocks
    THEN Fail(a, "content block not found for index")
    ELSE LET lowest == CHOOSE k \in DOMAIN a.contentBlocks :
                           \A j \in DOMAIN a.contentBlocks : k <= j
         IN MergeDelta(a, a.contentBlocks[lowest], ev.Delta[1])

contentBlockDelta(a, ev) ==
    IF a.response = None \/ ev.Delta = None \/ ev.Index = None
    THEN Fail(a, "invalid content block delta event")
    ELSE IF ev.Index[1] \notin DOMAIN a.contentBlocks
    THEN Fail(a, "content block not found for index")
    ELSE MergeDelta(a, a.contentBlocks[ev.Index[1]], ev.Delta[1])

(***************************************************************************)
(* message_delta                                                           *)
(***************************************************************************)
\* Mutant: the stop reason is assigned without the test for "".
SetStopReason_Always(r, d) == [r EXCEPT !.StopReason = d.StopReason]

SetStopReason(r, d) ==
    IF d.StopReason # "" THEN [r EXCEPT !.StopReason = d.StopReason] ELSE r

SetStopSequence(r, d) ==
    IF d.StopSequence # "" THEN [r EXCEPT !.StopSequence = Some(d.StopSequence)]
    ELSE r

messageDelta(a, ev) ==
    IF a.response = None \/ ev.Delta = None
    THEN Fail(a, "invalid message delta event")
    ELSE SetResp(a, SetStopSequence(SetStopReason(Resp(a), ev.Delta[1]), ev.Delta[1]))

(***************************************************************************)
(* message_stop and finalizeContent                                        *)
(***************************************************************************)
RECURSIVE SortInts(_)
\* sort.Ints over the map's keys: the keys in ascending order.
SortInts(S) ==
    IF S = {} THEN <<>>
    ELSE LET m == CHOOSE x \in S : \A y \in S : x <= y
         IN <<m>> \o SortInts(S \ {m})

\* Mutant: the keys without the sort.Ints call, in some other order.
SortedIndices_Unsorted(blocks) ==
    LET asc == SortInts(DOMAIN blocks)
    IN [i \in 1..Len(asc) |-> asc[Len(asc) + 1 - i]]

\* indices: the keys of the map, sorted.
SortedIndices(blocks) == SortInts(DOMAIN blocks)

\* content[i] = r.contentBlocks[indices[i]]
ContentOf(blocks) ==
    LET indices == SortedIndices(blocks)
    IN [i \in 1..Len(indices) |-> blocks[indices[i]]]

finalizeContent(a) ==
    IF a.response = None \/ Cardinality(DOMAIN a.contentBlocks) = 0
    THEN a
    ELSE SetResp(a, [Resp(a) EXCEPT !.Content = ContentOf(a.contentBlocks)])

\* Mutant: completion only once a response exists.
messageStop_Guarded(a, ev) ==
    IF a.response = None THEN a ELSE finalizeContent([a EXCEPT !.complete = TRUE])

messageStop(a, ev) == finalizeContent([a EXCEPT !.complete = TRUE])

(***************************************************************************)
(* The usage update every case but message_start and the error returns     *)
(* falls through to.  r.response.Usage of a nil r.response panics.         *)
(***************************************************************************)
AddUsage(u, v) ==
    MkUsage(u.InputTokens + v.InputTokens,
            u.OutputTokens + v.OutputTokens,
            u.CacheCreationInputTokens + v.CacheCreationInputTokens,
            u.CacheReadInputTokens + v.CacheReadInputTokens)

\* Mutant: the usage is added whatever the case returned.
updateUsage_AfterError(a, ev) ==
    IF ev.Usage = None \/ a.response = None THEN a
    ELSE SetResp(a, [Resp(a) EXCEPT !.Usage = AddUsage(@, ev.Usage[1])])

updateUsage(a, ev) ==
    IF a.err # Ok \/ ev.Usage = None THEN a
    ELSE IF a.response = None THEN Fail(a, Panic)
    ELSE SetResp(a, [Resp(a) EXCEPT !.Usage = AddUsage(@, ev.Usage[1])])

(***************************************************************************)
(* AddEvent as a whole: the case for the event's type, then the usage      *)
(* update unless the case returned.                                        *)
(***************************************************************************)
AddEventResult(a, ev) ==
    CASE ev.Type = "message_start" -> messageStart(a, ev)
      [] ev.Type = "content_block_start" -> updateUsage(contentBlockStart(a, ev), ev)
      [] ev.Type = "content_block_delta" -> updateUsage(contentBlockDelta(a, ev), ev)
      [] ev.Type = "message_delta" -> updateUsage(messageDelta(a, ev), ev)
      [] ev.Type = "message_stop" -> updateUsage(messageStop(a, ev), ev)
      [] OTHER -> updateUsage(a, ev)

\* The history the call leaves: what arrived, as the caller saw it.
Accepted(a, ev, type) == ev.Type = type /\ a.err = Ok

DistinctStartsAfter(a, ev) ==
    IF Accepted(a, ev, "content_block_start")
    THEN distinctStarts /\ ev.Index # None /\ ev.Index[1] \notin DOMAIN log
    ELSE distinctStarts

LogAfter(a, ev) ==
    IF Accepted(a, ev, "content_block_start")
    THEN (StartKey(contentBlocks, ev.Index) :>
            [start |-> ev.ContentBlock[1], deltas |-> <<>>]) @@ log
    ELSE IF Accepted(a, ev, "content_block_delta")
    THEN [log EXCEPT ![ev.Index[1]].deltas = Append(@, ev.Delta[1])]
    ELSE log

\* The counters an event carries: its usage payload and, on message_start,
\* the usage of its message snapshot.
Carried(ev) ==
    AddUsage(IF ev.Usage = None THEN ZeroUsage ELSE ev.Usage[1],
             IF ev.Type = "message_start" /\ ev.Message # None
             THEN ev.Message[1].Usage ELSE ZeroUsage)

UsageSumAfter(a, ev) ==
    IF a.err = Ok THEN AddUsage(usageSum, Carried(ev)) ELSE usageSum

\* One AddEvent call.
AddEvent(ev) ==
    /\ nEvents < MaxEvents(scenario)
    /\ LET a == AddEventResult(Acc, ev) IN
         /\ response' = a.response
         /\ contentBlocks' = a.contentBlocks
         /\ heap' = a.heap
         /\ complete' = a.complete
         /\ err' = a.err
         /\ distinctStarts' = DistinctStartsAfter(a, ev)
         /\ log' = LogAfter(a, ev)
         /\ usageSum' = UsageSumAfter(a, ev)
    /\ event' = Some(ev)
    /\ nEvents' = nEvents + 1
    /\ UNCHANGED <<scenario, streamVars, retryVars, clientVars, codecVars>>

MessageStart == \E ev \in MessageStartEvents(scenario) : AddEvent(ev)
ContentBlockStart == \E ev \in ContentBlockStartEvents(scenario) : AddEvent(ev)
ContentBlockDelta == \E ev \in ContentBlockDeltaEvents(scenario) : AddEvent(ev)
MessageDelta == \E ev \in MessageDeltaEvents(scenario) : AddEvent(ev)
MessageStop == \E ev \in MessageStopEvents(scenario) : AddEvent(ev)
OtherEvent == \E ev \in OtherEvents(scenario) : AddEvent(ev)

(***************************************************************************)
(* Accessors.                                                              *)
(***************************************************************************)
IsComplete == complete

\* Mutant: the blocks are materialized in the order they were created in.
ResponseResult_CreationOrder(a) ==
    IF a.response # None /\ Cardinality(DOMAIN a.contentBlocks) > 0
       /\ Len(Resp(a).Content) = 0
    THEN SetResp(a, [Resp(a) EXCEPT !.Content =
             SortInts({a.contentBlocks[k] : k \in DOMAIN a.contentBlocks})])
    ELSE a

\* Response(): finalizes the content first when blocks exist and the
\* response's content is still empty.
ResponseResult(a) ==
    IF a.response # None /\ Cardinality(DOMAIN a.contentBlocks) > 0
       /\ Len(Resp(a).Content) = 0
    THEN finalizeContent(a)
    ELSE a

CallResponse ==
    /\ response' = ResponseResult(Acc).response
    /\ UNCHANGED <<contentBlocks, heap, complete, event, err, nEvents, scenario,
                   distinctStarts, log, usageSum, streamVars, retryVars,
                   clientVars, codecVars>>

(***************************************************************************)
(* The SSE reader and the stream iterator.                                 *)
(*                                                                         *)
(* A line is the sequence of bytes ReadBytes('\n') returns.  A byte is a   *)
(* one-character string; a longer string stands for a run of bytes none of *)
(* which is whitespace, '{', '}' or part of "data: " or "[DONE]", taken as *)
(* one unit: the members of a JSON object, or the text of a comment.       *)
(***************************************************************************)
LF == "\n"
Whitespace == {" ", "\t", "\r", "\n"}
DataPrefix == <<"d", "a", "t", "a", ":", " ">>
Done == <<"[", "D", "O", "N", "E", "]">>

RECURSIVE TrimLeft(_)
TrimLeft(b) ==
    IF b # <<>> /\ Head(b) \in Whitespace THEN TrimLeft(Tail(b)) ELSE b

RECURSIVE TrimRight(_)
TrimRight(b) ==
    IF b # <<>> /\ b[Len(b)] \in Whitespace
    THEN TrimRight(SubSeq(b, 1, Len(b) - 1)) ELSE b

\* bytes.TrimSpace
TrimSpace(b) == TrimRight(TrimLeft(b))

\* bytes.HasPrefix
HasPrefix(b, p) == Len(b) >= Len(p) /\ SubSeq(b, 1, Len(p)) = p

\* bytes.TrimPrefix
TrimPrefix(b, p) == IF HasPrefix(b, p) THEN SubSeq(b, Len(p) + 1, Len(b)) ELSE b

\* Errors.
DecodeError == "json: syntax error"
CallbackError == "callback error"
ReadError == "read: connection reset"
ClosedBodyError == "http: read on closed response body"

\* The closing tag of the prefill runs, and texts around it.
ClosingTag == "</r>"
PlainText == "a</r"
TaggedText == "b</r>c"

\* The event each JSON object of the streams decodes to, by its members.
ZeroEvent == MkEvent("", None, None, None, None, None)

Members ==
    ("ping" :> MkEvent("ping", None, None, None, None, None))
    @@ ("stop" :> MkEvent("message_stop", None, None, None, None, None))
    @@ ("start_plain" :> MkEvent("content_block_start", Some(0), None,
            Some(MkContentBlock("text", PlainText, "", "", "", "", "")), None, None))
    @@ ("start_tagged" :> MkEvent("content_block_start", Some(1), None,
            Some(MkContentBlock("text", TaggedText, "", "", "", "", "")), None, None))
    @@ ("start_tool" :> MkEvent("content_block_start", Some(2), None,
            Some(ToolUseBlock), None, None))
    @@ ("start_nil" :> MkEvent("content_block_start", Some(3), None, None, None, None))
    @@ ("delta_tagged" :> MkEvent("content_block_delta", Some(0), None, None,
            Some(MkDelta("text_delta", ClosingTag, "", "", "", "", "")), None))

\* json.Unmarshal(line, &event): "{}" leaves the zero Event.
Unmarshal(b) ==
    IF b = <<"{", "}">> THEN [err |-> Ok, event |-> ZeroEvent]
    ELSE IF Len(b) = 3 /\ b[1] = "{" /\ b[3] = "}" /\ b[2] \in DOMAIN Members
    THEN [err |-> Ok, event |-> Members[b[2]]]
    ELSE [err |-> DecodeError, event |-> ZeroEvent]

\* The line "data: {members}\n".
Data(k) == DataPrefix \o <<"{", k, "}", LF>>
DoneLine == DataPrefix \o Done \o <<LF>>
EmptyObjectLine == DataPrefix \o <<"{", "}", LF>>

(***************************************************************************)
(* Stream alphabets.  A run reads either                                   *)
(*   framing  every kind of line, through the reader or the iterator, with *)
(*            or without a line callback, or                               *)
(*   prefill  well-formed event lines, through an iterator with a prefill  *)
(*            and with or without a closing tag, or                        *)
(*   closing  a few lines through an iterator whose Close() is called from *)
(*            other goroutines while Next() runs.                          *)
(***************************************************************************)
MkConfig(alphabet, client, callback, pf, tag) ==
    [alphabet |-> alphabet, client |-> client, callback |-> callback,
     prefill |-> pf, prefillClosingTag |-> tag]

\* The configuration of the runs that use no stream.
NoStream == MkConfig("none", "none", FALSE, "", "")

Configs ==
    { MkConfig("framing", c, cb, "", "") :
        c \in {"reader", "iterator"}, cb \in {FALSE, TRUE} }
    \cup { MkConfig("prefill", "iterator", FALSE, "P", tag) :
             tag \in {"", ClosingTag} }
    \cup { MkConfig("closing", "iterator", FALSE, "", "") }

MaxReads(alphabet) ==
    CASE alphabet = "framing" -> MaxFramingReads
      [] alphabet = "prefill" -> MaxPrefillReads
      [] alphabet = "closing" -> MaxClosingReads
      [] OTHER -> 0

Lines(alphabet) ==
    CASE alphabet = "framing" ->
           { <<LF>>,
             <<" ", "\r", LF>>,
             <<":", "keep-alive", LF>>,
             <<"event:", " ", "ping", LF>>,
             Data("ping"),
             <<"{", "stop", "}", LF>>,
             <<" ">> \o Data("ping"),
             DataPrefix \o <<" ", "{", "stop", "}", "\r", LF>>,
             DataPrefix \o <<"{", "ping", LF>>,
             EmptyObjectLine,
             DoneLine }
      [] alphabet = "prefill" ->
           { Data(k) : k \in {"start_plain", "start_tagged", "start_tool",
                              "start_nil", "delta_tagged", "ping"} }
           \cup {EmptyObjectLine, DoneLine}
      [] alphabet = "closing" ->
           { Data("ping"), DataPrefix \o <<"{", "ping", LF>>, DoneLine }
      [] OTHER -> {}

\* The lines a failing callback is tried on.
CallbackLines == {<<LF>>, Data("ping")}

\* The data ReadBytes may return together with an error: nothing, or a line
\* that lacks its newline.
Partials(alphabet) ==
    IF alphabet = "framing" THEN {<<>>, DataPrefix \o <<"{", "ping", "}">>}
    ELSE {<<>>}

\* What one ReadBytes('\n') call returns.
LineRead(l) == [kind |-> "line", data |-> l, err |-> Ok]
EOFRead(d) == [kind |-> "eof", data |-> d, err |-> "EOF"]
ErrorRead(d, e) == [kind |-> "error", data |-> d, err |-> e]

(***************************************************************************)
(* The body behind the bufio.Reader: open; at its end ("eof"); broken      *)
(* ("failed"); closed while the reader may still hold buffered lines       *)
(* ("closed"); closed with nothing buffered ("drained").                   *)
(***************************************************************************)
CanRead(b, o) ==
    CASE o.kind = "line" -> b \in {"open", "closed"}
      [] o.kind = "eof" -> b = "open" \/ (b = "eof" /\ o.data = <<>>)
      [] o.kind = "error" ->
           \/ b = "open" /\ o.err = ReadError
           \/ b = "failed" /\ o.err = ReadError /\ o.data = <<>>
           \/ b \in {"closed", "drained"} /\ o.err = ClosedBodyError /\ o.data = <<>>

BodyAfter(b, o) ==
    CASE o.kind = "line" -> b
      [] o.kind = "eof" -> "eof"
      [] o.kind = "error" -> IF b \in {"closed", "drained"} THEN "drained" ELSE "failed"

\* body.Close()
ClosedBody(b) == IF b \in {"open", "closed"} THEN "closed" ELSE "drained"

(***************************************************************************)
(* ServerSentEventsReader.Next: one pass of its loop over the outcome o of *)
(* ReadBytes and the result cb of the callback (Ok when there is none).    *)
(* The pass continues the loop, returns an event, or returns false.        *)
(***************************************************************************)
Continue(rerr) ==
    [kind |-> "continue", err |-> rerr, event |-> ZeroEvent, cause |-> ""]
Yield(rerr, ev) == [kind |-> "yield", err |-> rerr, event |-> ev, cause |-> ""]
Stop(rerr, cause) ==
    [kind |-> "stop", err |-> rerr, event |-> ZeroEvent, cause |-> cause]

\* Mutant: the line is trimmed, its "data: " prefix is kept.
Payload_KeepPrefix(line) == TrimSpace(line)

\* line = bytes.TrimSpace(bytes.TrimPrefix(line, []byte("data: ")))
Payload(line) == TrimSpace(TrimPrefix(line, DataPrefix))

ReaderNextStep(rerr, o, cb) ==
    IF o.kind = "error" THEN Stop(o.err, "read")
    ELSE IF o.kind = "eof" THEN Stop(rerr, "eof")
    ELSE IF cb # Ok THEN Stop(cb, "callback")
    ELSE IF Len(TrimSpace(o.data)) = 0 THEN Continue(rerr)
    ELSE LET line == Payload(o.data) IN
         IF line = Done THEN Stop(rerr, "done")
         ELSE IF ~HasPrefix(line, <<"{">>) THEN Continue(rerr)
         ELSE LET u == Unmarshal(line) IN
              IF u.err # Ok THEN Stop(u.err, "decode") ELSE Yield(rerr, u.event)

(***************************************************************************)
(* StreamIterator.processEvent                                             *)
(***************************************************************************)
\* The strings that surround the closing tag in the texts of Members.
Affixes == {"", "a", "b", "c"}

\* strings.Contains
Contains(str, sub) == \E x, y \in Affixes : str = x \o sub \o y

IsTextStart(ev) ==
    /\ ev.Type = "content_block_start"
    /\ ev.ContentBlock # None
    /\ ev.ContentBlock[1].Type = "text"

\* event.ContentBlock.Text = s.prefill + event.ContentBlock.Text
Prefilled(pf, ev) ==
    [ev EXCEPT !.ContentBlock = Some([@[1] EXCEPT !.Text = pf \o @])]

\* Mutant: the prefill is not cleared once applied.
processEvent_KeepPrefill(pf, tag, ev) ==
    IF ev.Type = "" THEN [event |-> None, prefill |-> pf]
    ELSE IF pf # "" /\ IsTextStart(ev)
            /\ (tag = "" \/ Contains(ev.ContentBlock[1].Text, tag))
    THEN [event |-> Some(Prefilled(pf, ev)), prefill |-> pf]
    ELSE [event |-> Some(ev), prefill |-> pf]

\* Mutant: the closing tag is not looked for.
processEvent_IgnoreTag(pf, tag, ev) ==
    IF ev.Type = "" THEN [event |-> None, prefill |-> pf]
    ELSE IF pf # "" /\ IsTextStart(ev)
    THEN [event |-> Some(Prefilled(pf, ev)), prefill |-> ""]
    ELSE [event |-> Some(ev), prefill |-> pf]

\* The event to surface (None for nil) and the prefill left pending.
processEvent(pf, tag, ev) ==
    IF ev.Type = "" THEN [event |-> None, prefill |-> pf]
    ELSE IF pf # "" /\ IsTextStart(ev)
            /\ (tag = "" \/ Contains(ev.ContentBlock[1].Text, tag))
    THEN [event |-> Some(Prefilled(pf, ev)), prefill |-> ""]
    ELSE [event |-> Some(ev), prefill |-> pf]

(***************************************************************************)
(* One pass of the caller's Next(): the reader's own, or the reader's      *)
(* inside StreamIterator.Next.  A pass taken when no call is pending       *)
(* begins a new call.                                                      *)
(***************************************************************************)
\* A Close() call is inside body.Close(), holding closeOnce.
Closing == \E i \in 1..Len(closeCalls) : closeCalls[i].ret = "running"

\* Mutant: body.Close() is called without closeOnce.
Do_Unguarded(done, busy) == "run"

\* s.closeOnce.Do(f): f runs in the first call; a call made while f runs
\* waits for it; a call made after it returns at once.
Do(done, busy) ==
    IF done THEN "return" ELSE IF busy THEN "wait" ELSE "run"

\* Mutant: Next() returns false without calling s.Close().
CloseOnce_Skipped(b) ==
    body' = b /\ UNCHANGED <<closeOnce, bodyCloses, closeCalls>>

\* s.Close() inside Next(), on the body as b; its result is dropped.  The
\* call waits while another one is inside body.Close().
CloseOnce(b) ==
    /\ Do(closeOnce, Closing) # "wait"
    /\ IF Do(closeOnce, Closing) = "return"
       THEN body' = b /\ UNCHANGED <<closeOnce, bodyCloses>>
       ELSE body' = ClosedBody(b) /\ closeOnce' = TRUE
            /\ bodyCloses' = bodyCloses + 1
    /\ UNCHANGED closeCalls

\* StreamIterator.Next, for the result r of the reader's pass.
IteratorNextStep(r, b) ==
    LET p == processEvent(prefill, config.prefillClosingTag, r.event) IN
    CASE r.kind = "stop" ->
           /\ iterErr' = r.err
           /\ CloseOnce(b)
           /\ ret' = "false"
           /\ UNCHANGED <<prefill, currentEvent, surfaced>>
      [] r.kind = "yield" /\ p.event # None ->
           /\ currentEvent' = p.event
           /\ prefill' = p.prefill
           /\ surfaced' = Append(surfaced, p.event[1])
           /\ ret' = "true"
           /\ body' = b
           /\ UNCHANGED <<iterErr, closeOnce, closeCalls, bodyCloses>>
      [] OTHER ->
           /\ ret' = "pending"
           /\ body' = b
           /\ UNCHANGED <<iterErr, prefill, currentEvent, closeOnce, closeCalls,
                          bodyCloses, surfaced>>

Read(o, cb) ==
    /\ nReads < MaxReads(config.alphabet)
    /\ CanRead(body, o)
    /\ LET r == ReaderNextStep(readerErr, o, cb) IN
         /\ readerErr' = r.err
         /\ raw' = (IF o.kind = "line" THEN Append(raw, o.data) ELSE raw)
         /\ unterminated' = (IF o.kind = "line" THEN unterminated ELSE o.data)
         /\ decoded' = (IF r.kind = "yield" THEN Append(decoded, r.event) ELSE decoded)
         /\ stops' = (IF r.kind = "stop" THEN Append(stops, r.cause) ELSE stops)
         /\ IF config.client = "iterator"
            THEN IteratorNextStep(r, BodyAfter(body, o))
            ELSE /\ ret' = (CASE r.kind = "stop" -> "false"
                              [] r.kind = "yield" -> "true"
                              [] OTHER -> "pending")
                 /\ body' = BodyAfter(body, o)
                 /\ UNCHANGED <<iterErr, prefill, currentEvent, closeOnce,
                                closeCalls, bodyCloses, surfaced>>
    /\ nReads' = nReads + 1
    /\ UNCHANGED <<config, accVars, retryVars, clientVars, codecVars>>

NextLine == \E l \in Lines(config.alphabet) : Read(LineRead(l), Ok)

NextCallbackError ==
    /\ config.callback
    /\ \E l \in CallbackLines : Read(LineRead(l), CallbackError)

NextEOF == \E d \in Partials(config.alphabet) : Read(EOFRead(d), Ok)

NextReadError ==
    \E d \in Partials(config.alphabet), e \in {ReadError, ClosedBodyError} :
        Read(ErrorRead(d, e), Ok)

\* What the Close() calls leave alone.
CloseFrame ==
    UNCHANGED <<config, readerErr, iterErr, prefill, currentEvent, ret, nReads,
                raw, unterminated, decoded, surfaced, stops, accVars, retryVars,
                clientVars, codecVars>>

CloseError == "close: connection reset"

\* StreamIterator.Close is called, from any goroutine and at any time: the
\* call enters closeOnce.Do.
Close ==
    /\ config.alphabet = "closing"
    /\ Len(closeCalls) < MaxCloseCalls
    /\ LET way == Do(closeOnce, Closing)
           first == ~closeOnce /\ ~Closing /\ bodyCloses = 0
       IN closeCalls' = Append(closeCalls,
              [first |-> first, waited |-> way = "wait",
               ret |-> CASE way = "return" -> Ok
                         [] way = "wait" -> "waiting"
                         [] OTHER -> "running"])
    /\ UNCHANGED <<body, closeOnce, bodyCloses>>
    /\ CloseFrame

\* body.Close() of a call inside closeOnce.Do returns e; so does the call.
CloseBody ==
    /\ \E i \in 1..Len(closeCalls), e \in {Ok, CloseError} :
         /\ closeCalls[i].ret = "running"
         /\ closeCalls' = [closeCalls EXCEPT ![i].ret = e]
    /\ body' = ClosedBody(body)
    /\ closeOnce' = TRUE
    /\ bodyCloses' = bodyCloses + 1
    /\ CloseFrame

\* A call that waited in closeOnce.Do returns nil once Do has run.
CloseAfterWait ==
    /\ ~Closing
    /\ \E i \in 1..Len(closeCalls) :
         /\ closeCalls[i].ret = "waiting"
         /\ closeCalls' = [closeCalls EXCEPT ![i].ret = Ok]
    /\ UNCHANGED <<body, closeOnce, bodyCloses>>
    /\ CloseFrame

(***************************************************************************)
(* The retry package: IsRecoverable, Do; ShouldRetry of the API errors.    *)
(* An error value is its chain, outermost first, as errors.As walks it;    *)
(* the nil error is the empty chain.                                       *)
(***************************************************************************)
NilError == <<>>

StatusOK == 200
StatusBadRequest == 400
StatusUnauthorized == 401
StatusForbidden == 403
StatusNotFound == 404
StatusTooManyRequests == 429
StatusInternalServerError == 500
StatusBadGateway == 502
StatusServiceUnavailable == 503
StatusGatewayTimeout == 504
StatusCloudflare == 520

StatusCodes ==
    {StatusOK, StatusBadRequest, StatusUnauthorized, StatusForbidden, StatusNotFound,
     StatusTooManyRequests, StatusInternalServerError, StatusBadGateway,
     StatusServiceUnavailable, StatusGatewayTimeout, StatusCloudflare}

ShouldRetry_BadGatewayToo(statusCode) ==
    statusCode \in {StatusTooManyRequests, StatusInternalServerError, StatusBadGateway,
                    StatusServiceUnavailable, StatusGatewayTimeout, StatusCloudflare}

ShouldRetry(statusCode) ==
    \/ statusCode = StatusTooManyRequests
    \/ statusCode = StatusInternalServerError
    \/ statusCode = StatusServiceUnavailable
    \/ statusCode = StatusGatewayTimeout
    \/ statusCode = StatusCloudflare

\* The links of an error chain: an errors.New value, a *recoverableError,
\* a *ProviderError (a *ClientError), a fmt.Errorf wrapper.
Link(kind, statusCode, text) == [kind |-> kind, statusCode |-> statusCode, text |-> text]

\* err.Error()
ErrorText(e) == IF e = NilError THEN "" ELSE e[1].text

ProviderError(statusCode) == Link("ProviderError", statusCode, "provider api error")

errorsNew(text) == <<Link("errorString", 0, text)>>
NewRecoverableError(e) == <<Link("recoverableError", 0, ErrorText(e))>> \o e
NewError(statusCode) == <<ProviderError(statusCode)>>
\* fmt.Errorf(format + "%w", e)
Errorf(format, e) == <<Link("wrapError", 0, format \o ErrorText(e))>> \o e

Canceled == <<Link("canceled", 0, "context canceled")>>

\* (e *ProviderError) IsRecoverable and (e *recoverableError) IsRecoverable.
LinkIsRecoverable(l) ==
    IF l.kind = "ProviderError" THEN ShouldRetry(l.statusCode) ELSE TRUE

ImplementsRecoverableError(l) == l.kind \in {"recoverableError", "ProviderError"}

IsRecoverable(e) ==
    IF e = NilError
    THEN FALSE
    ELSE LET found == {i \in 1..Len(e) : ImplementsRecoverableError(e[i])} IN
           /\ found # {}
           /\ LinkIsRecoverable(e[CHOOSE i \in found : \A j \in found : i <= j])

\* What f returns in the runs checked.
RetryResults ==
    {NilError, errorsNew("non-recoverable error"),
     NewRecoverableError(errorsNew("recoverable error")),
     Errorf("attempt failed: ", NewRecoverableError(errorsNew("recoverable error"))),
     NewRecoverableError(NewError(StatusBadRequest))}
    \cup {NewError(s) : s \in StatusCodes}

\* What the f of Generate and of Stream returns: nil, a transport error, an
\* API error for a status other than 200.
HTTPResults ==
    {NilError, Errorf("error making request: ", errorsNew("connection refused")),
     NewError(StatusBadRequest), NewError(StatusServiceUnavailable)}

FResults == IF call.fn = "none" THEN RetryResults ELSE HTTPResults

MaxRetries == 3
BaseWait == 2

\* The options of a call: none, WithMaxRetries(n), WithBaseWait(w), or both;
\* WithMaxRetries takes any int, a negative one included.
RetryConfigs ==
    [MaxRetries : {MaxRetries} \cup -1..MaxRetriesOption,
     BaseWait : {BaseWait, 0, 1}]

LoopCondition_Exclusive(a, c) == a < c.MaxRetries

\* attempt <= config.MaxRetries
LoopCondition(a, c) == a <= c.MaxRetries

\* backoff + jitter, where 0 <= jitter < backoff / 10: zero exactly when the
\* base wait is.
Backoff(a, c) == c.BaseWait * 2 ^ (a - 1)

RetryFrame == UNCHANGED <<accVars, streamVars, retryConfig, clientVars, codecVars>>

\* The context is cancelled while retry.Do runs.
Cancel ==
    /\ doPC \in {"call", "select"}
    /\ ctxErr = NilError
    /\ ctxErr' = Canceled
    /\ UNCHANGED <<attempt, lastError, doPC, doRet, nCalls, fErr, fRecoverable>>
    /\ RetryFrame

\* if err := f(); err != nil { ... }; return nil, then attempt++ and the
\* loop condition.
CallF(e) ==
    /\ doPC = "call"
    /\ nCalls' = nCalls + 1
    /\ fErr' = e
    /\ fRecoverable' = (e # NilError /\ IsRecoverable(e))
    /\ IF e # NilError
       THEN /\ lastError' = e
            /\ IF IsRecoverable(e)
               THEN /\ attempt' = attempt + 1
                    /\ IF LoopCondition(attempt + 1, retryConfig)
                       THEN doPC' = "select" /\ UNCHANGED doRet
                       ELSE doPC' = "done" /\ doRet' = e
               ELSE doPC' = "done" /\ doRet' = e /\ UNCHANGED attempt
       ELSE doPC' = "done" /\ doRet' = NilError /\ UNCHANGED <<attempt, lastError>>
    /\ UNCHANGED ctxErr
    /\ RetryFrame

FReturnsNil == CallF(NilError)
FReturnsRecoverable == \E e \in FResults : e # NilError /\ IsRecoverable(e) /\ CallF(e)
FReturnsOther == \E e \in FResults : e # NilError /\ ~IsRecoverable(e) /\ CallF(e)

\* case <-time.After(backoff + jitter): a timer that has to run is chosen
\* only while ctx.Done() is not ready; one of zero duration is ready at once,
\* and select picks either ready case.
TimerFires ==
    /\ doPC = "select"
    /\ ctxErr = NilError \/ Backoff(attempt, retryConfig) = 0
    /\ doPC' = "call"
    /\ UNCHANGED <<ctxErr, attempt, lastError, doRet, nCalls, fErr, fRecoverable>>
    /\ RetryFrame

\* case <-ctx.Done(): return ctx.Err()
ContextDone ==
    /\ doPC = "select"
    /\ ctxErr # NilError
    /\ doPC' = "done"
    /\ doRet' = ctxErr
    /\ UNCHANGED <<ctxErr, attempt, lastError, nCalls, fErr, fRecoverable>>
    /\ RetryFrame

\* No retry.Do call is under way.
NoRetry ==
    /\ retryConfig = [MaxRetries |-> MaxRetries, BaseWait |-> BaseWait]
    /\ ctxErr = NilError
    /\ attempt = 0
    /\ lastError = NilError
    /\ doPC = "idle"
    /\ doRet = NilError
    /\ nCalls = 0
    /\ fErr = NilError
    /\ fRecoverable = FALSE

(***************************************************************************)
(* reorderMessageContent and addPrefill (util.go); convertMessages,        *)
(* Generate and Stream of the client.  A message holds references to the   *)
(* caller's block objects, so what a call changes in place is seen by the  *)
(* caller.                                                                 *)
(***************************************************************************)
User == "user"
Assistant == "assistant"

ContentTypeText == "text"
ContentTypeToolUse == "tool_use"
ContentTypeToolResult == "tool_result"

ToolResultContent(toolUseID, content) ==
    MkBlock("tool_result", content, toolUseID, "", "", "", "")

\* block.Type()
Type(b) == b.kind

\* Message
MkMessage(id, role, content) == [ID |-> id, Role |-> role, Content |-> content]

\* The messages the calls are given: any role, up to MaxBlocks blocks each,
\* with an ID; alone, or next to an assistant message without an ID that
\* holds other block types.
InputBlocks ==
    {TextContent(PlainText), TextContent(TaggedText), ToolUseContent("tu_1", "search")}

InputContents == UNION {[1..n -> InputBlocks] : n \in 0..MaxBlocks}

InputMessages == {MkMessage("msg_1", r, c) : r \in {User, Assistant}, c \in InputContents}

Companion ==
    MkMessage("", Assistant, <<ToolUseContent("tu_2", "fetch"), ToolResultContent("tu_0", "ok"),
                           ThinkingContent("Hm", "s0")>>)

InputLists ==
    {<<>>} \cup {<<m>> : m \in InputMessages}
           \cup {<<Companion, m>> : m \in InputMessages}
           \cup {<<m, Companion>> : m \in InputMessages}

RECURSIVE Flatten(_)
Flatten(list) ==
    IF list = <<>> THEN <<>>
    ELSE Flatten(SubSeq(list, 1, Len(list) - 1)) \o list[Len(list)].Content

\* The messages of list, each block an object of its own.
Allocate(list) ==
    [messages |->
        [i \in DOMAIN list |->
            MkMessage(list[i].ID, list[i].Role,
                      [j \in DOMAIN list[i].Content |->
                          Len(Flatten(SubSeq(list, 1, i - 1))) + j])],
     heap |-> Flatten(list)]

IsToolUse(h, ref) == Type(h[ref]) = ContentTypeToolUse

\* Mutant: the tool_use blocks first.
reorderMessage_ToolUseFirst(msg, h) ==
    IF msg.Role # Assistant \/ Len(msg.Content) < 2
    THEN msg
    ELSE [msg EXCEPT !.Content =
             SelectSeq(msg.Content, LAMBDA r : IsToolUse(h, r))
             \o SelectSeq(msg.Content, LAMBDA r : ~IsToolUse(h, r))]

\* The body of the loop of reorderMessageContent.
reorderMessage(msg, h) ==
    IF msg.Role # Assistant \/ Len(msg.Content) < 2
    THEN msg
    ELSE LET toolUseBlocks == SelectSeq(msg.Content, LAMBDA r : IsToolUse(h, r))
             otherBlocks == SelectSeq(msg.Content, LAMBDA r : ~IsToolUse(h, r))
         IN IF Len(toolUseBlocks) > 0 /\ Len(otherBlocks) > 0
            THEN [msg EXCEPT !.Content = otherBlocks \o toolUseBlocks]
            ELSE msg

reorderMessageContent(msgs, h) == [i \in DOMAIN msgs |-> reorderMessage(msgs[i], h)]

\* The position of the first *TextContent of content, 0 when there is none.
FirstText(content, h) ==
    LET found == {i \in DOMAIN content : Type(h[content[i]]) = ContentTypeText} IN
      IF found = {} THEN 0 ELSE CHOOSE i \in found : \A j \in found : i <= j

\* Mutant: the closing tag is not looked for.
addPrefill_AnyText(content, h, pf, closingTag) ==
    IF pf = "" \/ FirstText(content, h) = 0
    THEN [heap |-> h,
          err |-> IF pf = "" THEN NilError
                  ELSE errorsNew("no text content found in message")]
    ELSE [heap |-> [h EXCEPT ![content[FirstText(content, h)]].Text = pf \o @],
          err |-> NilError]

addPrefill(content, h, pf, closingTag) ==
    IF pf = ""
    THEN [heap |-> h, err |-> NilError]
    ELSE LET i == FirstText(content, h) IN
           IF i = 0
           THEN [heap |-> h, err |-> errorsNew("no text content found in message")]
           ELSE IF closingTag = "" \/ Contains(h[content[i]].Text, closingTag)
                THEN [heap |-> [h EXCEPT ![content[i]].Text = pf \o @], err |-> NilError]
                ELSE [heap |-> h, err |-> errorsNew("prefill closing tag not found")]

\* copiedContent of one message: a *ToolResultContent is copied into a new
\* object, every other block is passed on as it is.  (No document block is
\* among the inputs.)
RECURSIVE CopyContent(_, _)
CopyContent(content, h) ==
    IF content = <<>>
    THEN [content |-> <<>>, heap |-> h]
    ELSE LET front == CopyContent(SubSeq(content, 1, Len(content) - 1), h)
             ref == content[Len(content)]
         IN IF Type(h[ref]) = ContentTypeToolResult
            THEN [content |-> Append(front.content, Len(front.heap) + 1),
                  heap |-> Append(front.heap, ToolResultContent(h[ref].ID, h[ref].Text))]
            ELSE [content |-> Append(front.content, ref), heap |-> front.heap]

RECURSIVE CopyMessages(_, _)
CopyMessages(msgs, h) ==
    IF msgs = <<>>
    THEN [messages |-> <<>>, heap |-> h]
    ELSE LET front == CopyMessages(SubSeq(msgs, 1, Len(msgs) - 1), h)
             c == CopyContent(msgs[Len(msgs)].Content, front.heap)
         IN [messages |-> Append(front.messages, MkMessage("", msgs[Len(msgs)].Role, c.content)),
             heap |-> c.heap]

EmptyMessages(msgs) == {i \in DOMAIN msgs : Len(msgs[i].Content) = 0}

Converted(msgs, h, result, e) == [messages |-> msgs, heap |-> h, result |-> result, err |-> e]

\* Mutant: empty messages are let through.
convertMessages_NoContentCheck(msgs, h) ==
    IF Len(msgs) = 0
    THEN Converted(msgs, h, None, errorsNew("no messages provided"))
    ELSE Converted(reorderMessageContent(msgs, h),
                   CopyMessages(reorderMessageContent(msgs, h), h).heap,
                   Some(CopyMessages(reorderMessageContent(msgs, h), h).messages),
                   NilError)

convertMessages(msgs, h) ==
    IF Len(msgs) = 0
    THEN Converted(msgs, h, None, errorsNew("no messages provided"))
    ELSE IF EmptyMessages(msgs) # {}
    THEN LET i == CHOOSE i \in EmptyMessages(msgs) : \A j \in EmptyMessages(msgs) : i <= j
         IN Converted(msgs, h, None,
                      errorsNew("empty message detected (index " \o ToString(i - 1) \o ")"))
    ELSE LET reordered == reorderMessageContent(msgs, h)
             copied == CopyMessages(reordered, h)
         IN Converted(reordered, copied.heap, Some(copied.messages), NilError)

MkCall(fn, target, pf, closingTag) ==
    [fn |-> fn, target |-> target, prefill |-> pf, closingTag |-> closingTag]

NoCall == MkCall("none", 0, "", "")

ClientFrame == UNCHANGED <<accVars, streamVars, given, codecVars>>

ReorderMessageContent ==
    /\ callPC = "ready"
    /\ call' = MkCall("reorderMessageContent", 0, "", "")
    /\ messages' = reorderMessageContent(messages, blockHeap)
    /\ callPC' = "returned"
    /\ UNCHANGED <<blockHeap, callErr, converted, retryVars>>
    /\ ClientFrame

\* addPrefill on the content of one of the messages.
AddPrefill ==
    /\ callPC = "ready"
    /\ \E i \in DOMAIN messages, pf \in {"", "P"}, closingTag \in {"", ClosingTag} :
         LET a == addPrefill(messages[i].Content, blockHeap, pf, closingTag) IN
           /\ call' = MkCall("addPrefill", i, pf, closingTag)
           /\ blockHeap' = a.heap
           /\ callErr' = a.err
    /\ callPC' = "returned"
    /\ UNCHANGED <<messages, converted, retryVars>>
    /\ ClientFrame

ConvertMessages ==
    /\ callPC = "ready"
    /\ call' = MkCall("convertMessages", 0, "", "")
    /\ LET c == convertMessages(messages, blockHeap) IN
         /\ messages' = c.messages
         /\ blockHeap' = c.heap
         /\ converted' = c.result
         /\ callErr' = c.err
    /\ callPC' = "returned"
    /\ UNCHANGED retryVars
    /\ ClientFrame

\* Generate and Stream up to retry.Do: applyRequestConfig (which returns
\* nil), convertMessages, and the return of its error: as it is from
\* Generate, wrapped from Stream.
Enter(fn) ==
    /\ callPC = "ready"
    /\ call' = MkCall(fn, 0, "", "")
    /\ LET c == convertMessages(messages, blockHeap) IN
         /\ messages' = c.messages
         /\ blockHeap' = c.heap
         /\ converted' = c.result
         /\ IF c.err # NilError
            THEN /\ callErr' = (IF fn = "Stream"
                                THEN Errorf("error converting messages: ", c.err)
                                ELSE c.err)
                 /\ callPC' = "returned"
                 /\ UNCHANGED retryVars
            ELSE /\ callPC' = "retrying"
                 /\ doPC' = "call"
                 /\ UNCHANGED <<callErr, retryConfig, ctxErr, attempt, lastError, doRet,
                                nCalls, fErr, fRecoverable>>
    /\ ClientFrame

Generate == Enter("Generate")
Stream == Enter("Stream")

\* After retry.Do: its error, or for Generate the result or the error for a
\* response without content, for Stream the iterator.
ClientReturn ==
    /\ callPC = "retrying"
    /\ doPC = "done"
    /\ callPC' = "returned"
    /\ callErr' \in (IF doRet # NilError THEN {doRet}
                     ELSE IF call.fn = "Generate"
                     THEN {NilError, errorsNew("empty response from anthropic api")}
                     ELSE {NilError})
    /\ UNCHANGED <<messages, blockHeap, call, converted, retryVars>>
    /\ ClientFrame

\* No call on messages is under way.
NoClient ==
    /\ messages = <<>>
    /\ blockHeap = <<>>
    /\ given = [messages |-> <<>>, heap |-> <<>>]
    /\ call = NoCall
    /\ callPC = "idle"
    /\ callErr = NilError
    /\ converted = None

(***************************************************************************)
(* The JSON of a content block (response.go): MarshalJSON of the variants  *)
(* and UnmarshalContent.  A JSON object is a function from the keys that   *)
(* are present to their values; raw JSON is a sequence of tokens, blanks   *)
(* included.  A nil pointer, slice or RawMessage is None.                  *)
(***************************************************************************)
ContentTypeThinking == "thinking"
ContentTypeRedactedThinking == "redacted_thinking"
ContentTypeRefusal == "refusal"

\* The tags UnmarshalContent has a case for, besides the six above.
OtherContentTypes ==
    {"image", "document", "server_tool_use", "web_search_tool_result", "mcp_tool_use",
     "mcp_tool_result", "mcp_list_tools", "mcp_approval_request",
     "mcp_approval_response", "code_execution_tool_result"}

CitationTypeCharLocation == "char_location"
CitationTypeWebSearchResultLocation == "web_search_result_location"

\* *CharLocation and *WebSearchResultLocation; Type is a field like the
\* others, set by whoever builds the value.
MkCitation(struct, type, citedText, url, title) ==
    [struct |-> struct, Type |-> type, CitedText |-> citedText, URL |-> url, Title |-> title]

CharLocation(type, citedText) == MkCitation("CharLocation", type, citedText, "", "")
WebSearchResultLocation(type, url, title) ==
    MkCitation("WebSearchResultLocation", type, "", url, title)

\* A value held in a field of type any: its Go type and, as strings, what
\* it holds.
MkAny(goType, items) == [goType |-> goType, items |-> items]
NilAny == MkAny("nil", <<>>)

TextValue(text, cacheControl, citations) ==
    [variant |-> "TextContent", Text |-> text, CacheControl |-> cacheControl,
     Citations |-> citations]
RefusalValue(text, cacheControl) ==
    [variant |-> "RefusalContent", Text |-> text, CacheControl |-> cacheControl]
ToolUseValue(id, name, input) ==
    [variant |-> "ToolUseContent", ID |-> id, Name |-> name, Input |-> input]
ToolResultValue(toolUseID, content, isError, cacheControl) ==
    [variant |-> "ToolResultContent", ToolUseID |-> toolUseID, Content |-> content,
     IsError |-> isError, CacheControl |-> cacheControl]
ThinkingValue(id, thinking, signature) ==
    [variant |-> "ThinkingContent", ID |-> id, Thinking |-> thinking,
     Signature |-> signature]
RedactedThinkingValue(data) == [variant |-> "RedactedThinkingContent", Data |-> data]
OtherValue(type, fields) == [variant |-> type, Fields |-> fields]

\* c.Type() of each variant.
TypeOf(b) ==
    CASE b.variant = "TextContent" -> ContentTypeText
      [] b.variant = "RefusalContent" -> ContentTypeRefusal
      [] b.variant = "ToolUseContent" -> ContentTypeToolUse
      [] b.variant = "ToolResultContent" -> ContentTypeToolResult
      [] b.variant = "ThinkingContent" -> ContentTypeThinking
      [] b.variant = "RedactedThinkingContent" -> ContentTypeRedactedThinking
      [] OTHER -> b.variant

Blank == " "

\* What json.Marshal writes for the bytes a MarshalJSON method returns: the
\* same JSON without its insignificant blanks.
Compact(rawJSON) == SelectSeq(rawJSON, LAMBDA t : t # Blank)

\* The object with the keys of present, taken from all.
Object(present, all) == [k \in present |-> all[k]]

Get(obj, key, default) == IF key \in DOMAIN obj THEN obj[key] ELSE default

Encoded(obj) == [json |-> Some(obj), err |-> NilError]
EncodeError(text) == [json |-> None, err |-> errorsNew(text)]

\* json.Marshal of a *CharLocation or a *WebSearchResultLocation.
MarshalCitation(c) ==
    LET all == [type |-> c.Type, cited_text |-> c.CitedText, url |-> c.URL,
                title |-> c.Title]
    IN Object({"type"}
              \cup (IF c.struct = "WebSearchResultLocation" THEN {"url", "title"} ELSE {})
              \cup (IF c.CitedText # "" THEN {"cited_text"} ELSE {}), all)

\* json.Marshal of a value of type any.
MarshalAny(a) ==
    [kind |-> CASE a.goType = "nil" -> "null"
                [] a.goType = "string" -> "string"
                [] OTHER -> "array",
     items |-> a.items]

MarshalCacheControl(cc) == IF cc = None THEN "" ELSE cc[1]

\* json.Marshal(block): the MarshalJSON method of the variant.
MarshalJSON(b) ==
    CASE b.variant = "TextContent" ->
           Encoded(Object({"type", "text"}
                          \cup (IF b.CacheControl # None THEN {"cache_control"} ELSE {})
                          \cup (IF Len(b.Citations) > 0 THEN {"citations"} ELSE {}),
                          [type |-> ContentTypeText, text |-> b.Text,
                           cache_control |-> MarshalCacheControl(b.CacheControl),
                           citations |-> [i \in DOMAIN b.Citations |->
                                             MarshalCitation(b.Citations[i])]]))
      [] b.variant = "RefusalContent" ->
           Encoded(Object({"type", "text"}
                          \cup (IF b.CacheControl # None THEN {"cache_control"} ELSE {}),
                          [type |-> ContentTypeRefusal, text |-> b.Text,
                           cache_control |-> MarshalCacheControl(b.CacheControl)]))
      [] b.variant = "ToolUseContent" ->
           IF b.Input # None /\ Compact(b.Input[1]) = <<>>
           THEN EncodeError("json: error calling MarshalJSON for type json.RawMessage")
           ELSE Encoded([type |-> ContentTypeToolUse, id |-> b.ID, name |-> b.Name,
                         input |-> IF b.Input = None THEN <<"null">>
                                   ELSE Compact(b.Input[1])])
      [] b.variant = "ToolResultContent" ->
           Encoded(Object({"type", "tool_use_id", "content"}
                          \cup (IF b.IsError THEN {"is_error"} ELSE {})
                          \cup (IF b.CacheControl # None THEN {"cache_control"} ELSE {}),
                          [type |-> ContentTypeToolResult, tool_use_id |-> b.ToolUseID,
                           content |-> MarshalAny(b.Content), is_error |-> b.IsError,
                           cache_control |-> MarshalCacheControl(b.CacheControl)]))
      [] b.variant = "ThinkingContent" ->
           Encoded(Object({"type", "thinking"}
                          \cup (IF b.ID # "" THEN {"id"} ELSE {})
                          \cup (IF b.Signature # "" THEN {"signature"} ELSE {}),
                          [type |-> ContentTypeThinking, id |-> b.ID,
                           thinking |-> b.Thinking, signature |-> b.Signature]))
      [] b.variant = "RedactedThinkingContent" ->
           Encoded([type |-> ContentTypeRedactedThinking, data |-> b.Data])
      [] OTHER -> Encoded(b.Fields)

Decoded(b) == [content |-> Some(b), err |-> NilError]
DecodeFailure(text) == [content |-> None, err |-> errorsNew(text)]

\* unmarshalCitation
unmarshalCitation(obj) ==
    CASE Get(obj, "type", "") = CitationTypeCharLocation ->
           Decoded(CharLocation(obj["type"], Get(obj, "cited_text", "")))
      [] Get(obj, "type", "") = CitationTypeWebSearchResultLocation ->
           Decoded([WebSearchResultLocation(obj["type"], Get(obj, "url", ""),
                                            Get(obj, "title", ""))
                    EXCEPT !.CitedText = Get(obj, "cited_text", "")])
      [] OTHER -> DecodeFailure("unknown citation type: " \o Get(obj, "type", ""))

\* unmarshalCitations: the citations, or the error of the first that fails.
unmarshalCitations(items) ==
    LET failed == {i \in DOMAIN items : unmarshalCitation(items[i]).err # NilError} IN
      IF failed = {}
      THEN Decoded([i \in DOMAIN items |-> unmarshalCitation(items[i]).content[1]])
      ELSE DecodeFailure(ErrorText(
               unmarshalCitation(items[CHOOSE i \in failed : \A j \in failed : i <= j]).err))

\* json.Unmarshal into a field of type any.
UnmarshalAny(v) ==
    MkAny(CASE v.kind = "null" -> "nil"
            [] v.kind = "string" -> "string"
            [] OTHER -> "[]interface {}",
          v.items)

UnmarshalCacheControl(obj) ==
    IF "cache_control" \in DOMAIN obj THEN Some(obj["cache_control"]) ELSE None

\* Mutant: a tag without a case is decoded as text.
UnmarshalContent_DefaultText(obj) ==
    IF Get(obj, "type", "") = ContentTypeToolUse
    THEN Decoded(ToolUseValue(Get(obj, "id", ""), Get(obj, "name", ""),
                              IF "input" \in DOMAIN obj THEN Some(obj["input"]) ELSE None))
    ELSE Decoded(TextValue(Get(obj, "text", ""), UnmarshalCacheControl(obj), <<>>))

UnmarshalContent(obj) ==
    LET type == Get(obj, "type", "") IN
    CASE type = ContentTypeText ->
           LET citations == IF "citations" \in DOMAIN obj
                            THEN unmarshalCitations(obj["citations"])
                            ELSE Decoded(<<>>)
           IN IF citations.err # NilError
              THEN [content |-> None, err |-> citations.err]
              ELSE Decoded(TextValue(Get(obj, "text", ""), UnmarshalCacheControl(obj),
                                     citations.content[1]))
      [] type = ContentTypeRefusal ->
           Decoded(RefusalValue(Get(obj, "text", ""), UnmarshalCacheControl(obj)))
      [] type = ContentTypeToolUse ->
           Decoded(ToolUseValue(Get(obj, "id", ""), Get(obj, "name", ""),
                                IF "input" \in DOMAIN obj THEN Some(obj["input"]) ELSE None))
      [] type = ContentTypeToolResult ->
           Decoded(ToolResultValue(Get(obj, "tool_use_id", ""),
                                   IF "content" \in DOMAIN obj
                                   THEN UnmarshalAny(obj["content"]) ELSE NilAny,
                                   Get(obj, "is_error", FALSE), UnmarshalCacheControl(obj)))
      [] type = ContentTypeThinking ->
           Decoded(ThinkingValue(Get(obj, "id", ""), Get(obj, "thinking", ""),
                                 Get(obj, "signature", "")))
      [] type = ContentTypeRedactedThinking ->
           Decoded(RedactedThinkingValue(Get(obj, "data", "")))
      [] type \in OtherContentTypes -> Decoded(OtherValue(type, obj))
      [] OTHER -> DecodeFailure("unsupported content type: " \o type)

\* The blocks that are serialized and decoded again.
CacheControls == {None, Some("ephemeral")}

Citations ==
    {CharLocation(CitationTypeCharLocation, "The grass is green."),
     WebSearchResultLocation(CitationTypeWebSearchResultLocation, "https://e.org", "E"),
     CharLocation("", "untyped")}

CitationLists == UNION {[1..n -> Citations] : n \in 0..MaxCitations}

RawInputs ==
    {None, Some(<<>>), Some(<<"{", "}">>), Some(<<"{", "\"q\"", ":", "1", "}">>),
     Some(<<"{", "\"q\"", ":", Blank, "1", "}">>)}

AnyValues ==
    {NilAny, MkAny("string", <<"15 degrees">>),
     MkAny("[]*ContentChunk", <<"{\"type\":\"text\",\"text\":\"15 degrees\"}">>),
     MkAny("[]interface {}", <<"{\"type\":\"text\",\"text\":\"15 degrees\"}">>)}

Blocks ==
    {TextValue("hi", cc, cs) : cc \in CacheControls, cs \in CitationLists}
    \cup {RefusalValue("no", cc) : cc \in CacheControls}
    \cup {ToolUseValue("toolu_1", "get_weather", in) : in \in RawInputs}
    \cup {ToolResultValue("toolu_1", a, e, cc) :
              a \in AnyValues, e \in BOOLEAN, cc \in CacheControls}
    \cup {ThinkingValue(id, "Let me see", sg) : id \in {"", "th_1"}, sg \in {"", "WaUj"}}
    \cup {RedactedThinkingValue("EmwK")}

\* JSON objects that come from elsewhere: tags without a case, no tag.
ForeignObjects ==
    {[type |-> "audio", text |-> "hi"], [text |-> "hi"], [type |-> "Text", text |-> "hi"],
     [type |-> "tool_call", id |-> "toolu_1"], [type |-> ContentTypeText, text |-> "hi"],
     [type |-> "image", source |-> "s"]}

CodecFrame == UNCHANGED <<accVars, streamVars, retryVars, clientVars, original>>

\* json.Marshal(block)
MarshalCall ==
    /\ codecPC = "value"
    /\ LET m == MarshalJSON(original[1]) IN
         /\ wire' = m.json
         /\ codecErr' = m.err
         /\ codecPC' = (IF m.err = NilError THEN "wire" ELSE "failed")
    /\ UNCHANGED unmarshalled
    /\ CodecFrame

\* UnmarshalContent(data)
UnmarshalContentCall ==
    /\ codecPC = "wire"
    /\ LET u == UnmarshalContent(wire[1]) IN
         /\ unmarshalled' = u.content
         /\ codecErr' = u.err
         /\ codecPC' = (IF u.err = NilError THEN "decoded" ELSE "failed")
    /\ UNCHANGED wire
    /\ CodecFrame

\* No block is being serialized or decoded.
NoCodec ==
    /\ original = None
    /\ wire = None
    /\ unmarshalled = None
    /\ codecErr = NilError
    /\ codecPC = "idle"

(***************************************************************************)
(* NewResponseAccumulator, NewServerSentEventsReader and the StreamIterator*)
(* literal of Client.Stream; the specifications.                           *)
(***************************************************************************)
NewResponseAccumulator ==
    /\ response = None
    /\ contentBlocks = <<>>
    /\ heap = <<>>
    /\ complete = FALSE
    /\ event = None
    /\ err = Ok
    /\ nEvents = 0
    /\ distinctStarts = TRUE
    /\ log = <<>>
    /\ usageSum = ZeroUsage

NewStream ==
    /\ body = "open"
    /\ readerErr = Ok
    /\ iterErr = Ok
    /\ prefill = config.prefill
    /\ currentEvent = None
    /\ closeOnce = FALSE
    /\ closeCalls = <<>>
    /\ bodyCloses = 0
    /\ ret = "none"
    /\ nReads = 0
    /\ raw = <<>>
    /\ unterminated = <<>>
    /\ decoded = <<>>
    /\ surfaced = <<>>
    /\ stops = <<>>

Init ==
    /\ NewResponseAccumulator
    /\ scenario \in Scenarios
    /\ config = NoStream
    /\ NewStream
    /\ NoRetry
    /\ NoClient
    /\ NoCodec

Next ==
    \/ MessageStart
    \/ ContentBlockStart
    \/ ContentBlockDelta
    \/ MessageDelta
    \/ MessageStop
    \/ OtherEvent
    \/ CallResponse

Spec == Init /\ [][Next]_vars

\* A stream is read; no accumulator is fed.
StreamInit ==
    /\ NewResponseAccumulator
    /\ scenario = "lifecycle"
    /\ config \in Configs
    /\ NewStream
    /\ NoRetry
    /\ NoClient
    /\ NoCodec

StreamNext ==
    \/ NextLine
    \/ NextCallbackError
    \/ NextEOF
    \/ NextReadError
    \/ Close
    \/ CloseBody
    \/ CloseAfterWait

StreamSpec == StreamInit /\ [][StreamNext]_vars

\* retry.Do is called, with any options and a context that may have been
\* cancelled already; no stream is read and no accumulator is fed.  The loop
\* condition has been evaluated for attempt 0: when it is false, Do has
\* returned lastError, which is nil, without entering the loop.
RetryInit ==
    /\ NewResponseAccumulator
    /\ scenario = "lifecycle"
    /\ config = NoStream
    /\ NewStream
    /\ retryConfig \in RetryConfigs
    /\ ctxErr \in {NilError, Canceled}
    /\ attempt = 0
    /\ lastError = NilError
    /\ doPC = (IF LoopCondition(0, retryConfig) THEN "call" ELSE "done")
    /\ doRet = NilError
    /\ nCalls = 0
    /\ fErr = NilError
    /\ fRecoverable = FALSE
    /\ NoClient
    /\ NoCodec

RetryNext ==
    \/ Cancel
    \/ FReturnsNil
    \/ FReturnsRecoverable
    \/ FReturnsOther
    \/ TimerFires
    \/ ContextDone

RetrySpec == RetryInit /\ [][RetryNext]_vars

\* One call on a list of messages: reorderMessageContent, addPrefill,
\* convertMessages, or Generate or Stream of a client made with
\* WithMaxRetries(MaxClientRetries) and a live context.
ClientInit ==
    /\ NewResponseAccumulator
    /\ scenario = "lifecycle"
    /\ config = NoStream
    /\ NewStream
    /\ \E list \in InputLists :
         /\ messages = Allocate(list).messages
         /\ blockHeap = Allocate(list).heap
         /\ given = Allocate(list)
    /\ call = NoCall
    /\ callPC = "ready"
    /\ callErr = NilError
    /\ converted = None
    /\ retryConfig = [MaxRetries |-> MaxClientRetries, BaseWait |-> 1]
    /\ ctxErr = NilError
    /\ attempt = 0
    /\ lastError = NilError
    /\ doPC = "idle"
    /\ doRet = NilError
    /\ nCalls = 0
    /\ fErr = NilError
    /\ fRecoverable = FALSE
    /\ NoCodec

ClientNext ==
    \/ ReorderMessageContent
    \/ AddPrefill
    \/ ConvertMessages
    \/ Generate
    \/ Stream
    \/ FReturnsNil
    \/ FReturnsRecoverable
    \/ FReturnsOther
    \/ TimerFires
    \/ ClientReturn

ClientSpec == ClientInit /\ [][ClientNext]_vars

\* A content block is serialized and the JSON decoded, or a JSON object
\* from elsewhere is decoded.
CodecInit ==
    /\ NewResponseAccumulator
    /\ scenario = "lifecycle"
    /\ config = NoStream
    /\ NewStream
    /\ NoRetry
    /\ NoClient
    /\ \/ /\ original \in {Some(b) : b \in Blocks}
          /\ wire = None
          /\ codecPC = "value"
       \/ /\ original = None
          /\ wire \in {Some(o) : o \in ForeignObjects}
          /\ codecPC = "wire"
    /\ unmarshalled = None
    /\ codecErr = NilError

CodecNext ==
    \/ MarshalCall
    \/ UnmarshalContentCall

CodecSpec == CodecInit /\ [][CodecNext]_vars

(***************************************************************************)
(* Properties.                                                             *)
(***************************************************************************)
\* A step that is an AddEvent call; event' is then the event it was given.
Added == nEvents' = nEvents + 1

\* AddEvent returned an error (it neither returned nil nor panicked).
ReturnedError(e) == e \notin {Ok, Panic}

\* The accumulator's own fields are left as they were.
AccUnchanged == UNCHANGED <<response, contentBlocks, heap, complete>>

RECURSIVE TextOfDeltas(_)
\* The texts of the text deltas of a sequence of deltas, in arrival order.
TextOfDeltas(ds) ==
    IF ds = <<>> THEN ""
    ELSE (IF Head(ds).Type = "text_delta" THEN Head(ds).Text ELSE "")
         \o TextOfDeltas(Tail(ds))

\* What the stream says the text of a block is: seed, then deltas.
ExpectedText(entry) == entry.start.Text \o TextOfDeltas(entry.deltas)

\* The variant a start payload asks for ("nil" when unrecognized).
PayloadKind(cb) ==
    IF cb.Type \in {"text", "tool_use", "thinking", "redacted_thinking"}
    THEN cb.Type ELSE "nil"

\* The block behind ref is the one the stream started and fed as entry says.
Matches(ref, entry) ==
    /\ KindOf(heap, ref) = PayloadKind(entry.start)
    /\ KindOf(heap, ref) = "text" => heap[ref].Text = ExpectedText(entry)
    /\ KindOf(heap, ref) = "tool_use" => heap[ref].ID = entry.start.ID

\* The position of key k among the keys K, counted in ascending order.
Rank(K, k) == Cardinality({j \in K : j <= k})

LastEventIs(type) == event # None /\ event[1].Type = type

\* C1 (P1, ordering): after message_stop on a stream whose starts carried
\* distinct explicit indices, in whatever order, the response content is
\* exactly the started blocks in ascending index order, one entry per started
\* index, gaps skipped.
C1_Ordering ==
    (LastEventIs("message_stop") /\ response # None /\ distinctStarts
       /\ DOMAIN log # {})
    => LET c == response[1].Content
           K == DOMAIN log
       IN /\ Len(c) = Cardinality(K)
          /\ \A k \in K : Matches(c[Rank(K, k)], log[k])

\* Index 2 was started before index 0, index 1 never, a delta was merged, and
\* the stream was stopped.
C1_Witness ==
    /\ LastEventIs("message_stop") /\ response # None /\ distinctStarts
    /\ DOMAIN log = {0, 2}
    /\ contentBlocks[2] < contentBlocks[0]
    /\ log[0].start # log[2].start
    /\ log[0].deltas # <<>>
    /\ Len(response[1].Content) = 2

\* C2 (P2, text merge): a text block's text is the seed of its start followed
\* by the texts of the text deltas accepted for its index, in arrival order.
C2_TextMerge ==
    \A k \in DOMAIN log :
        log[k].start.Type = "text"
        => /\ KindOf(heap, contentBlocks[k]) = "text"
           /\ heap[contentBlocks[k]].Text = ExpectedText(log[k])

\* Seed "Hello" with deltas " " and "world" gives "Hello world".
C2_Witness ==
    \E k \in DOMAIN log :
        /\ log[k].start.Text = "Hello"
        /\ Len(log[k].deltas) = 2
        /\ log[k].deltas[1].Text = " "
        /\ log[k].deltas[2].Text = "world"
        /\ heap[contentBlocks[k]].Text = "Hello world"

\* C3: before any message_start has been accepted, every content_block_start,
\* content_block_delta, content_block_stop and message_delta is answered with
\* an error.  (The code has no case for content_block_stop.)
C3_ErrorBeforeStart ==
    [][(Added /\ response = None
          /\ event'[1].Type \in {"content_block_start", "content_block_delta",
                                 "content_block_stop", "message_delta"})
       => ReturnedError(err')]_vars

\* A delta of type dt does not fit a block of dynamic type kind.
Mismatch(dt, kind) ==
    \/ dt = "text_delta" /\ kind # "text"
    \/ dt = "input_json_delta" /\ kind # "tool_use"
    \/ dt \in {"thinking_delta", "signature_delta"} /\ kind # "thinking"

\* C4 (delta validation): a content_block_delta with a nil delta, a nil index,
\* no block at the index, or a delta type that does not match the block's
\* variant is answered with an error and changes nothing.
C4_DeltaValidation ==
    [][(Added /\ event'[1].Type = "content_block_delta"
          /\ LET ev == event'[1] IN
               \/ ev.Delta = None
               \/ ev.Index = None
               \/ ev.Index[1] \notin DOMAIN contentBlocks
               \/ Mismatch(ev.Delta[1].Type,
                           KindOf(heap, contentBlocks[ev.Index[1]])))
       => (ReturnedError(err') /\ AccUnchanged)]_vars

\* A text_delta addressed to an existing tool-use block was refused.
C4_Witness ==
    /\ LastEventIs("content_block_delta") /\ response # None
    /\ event[1].Delta # None /\ event[1].Index # None
    /\ event[1].Delta[1].Type = "text_delta"
    /\ event[1].Index[1] \in DOMAIN contentBlocks
    /\ KindOf(heap, contentBlocks[event[1].Index[1]]) = "tool_use"
    /\ err = "in-progress block is not a text content"

\* C5 (P3, usage additivity): the response's usage is the component-wise sum
\* of the counters carried by the events so far, whatever their types.
C5_UsageAdditive ==
    response # None => response[1].Usage = usageSum

\* C6: IsComplete() is false at first, becomes true exactly when a
\* message_stop is added, and is true ever after.
C6_Complete ==
    /\ ~IsComplete
    /\ [][IsComplete' = (IsComplete \/ (Added /\ event'[1].Type = "message_stop"))]_vars

\* Complete, with an event accepted after the message_stop.
C6_Witness ==
    /\ IsComplete /\ response # None
    /\ event # None /\ event[1].Type = "content_block_start" /\ err = Ok

\* C7: whenever IsComplete() is true, Response() is non-nil (a message_start
\* was accepted before the message_stop).
C7_CompleteOnlyFromStarted ==
    IsComplete => ResponseResult(Acc).response # None

\* C8: message_start with a nil snapshot returns "invalid message start
\* event" and changes nothing; with a snapshot it returns nil and the
\* snapshot is the working response.
C8_MessageStart ==
    [][(Added /\ event'[1].Type = "message_start")
       => LET m == event'[1].Message IN
          IF m = None
          THEN err' = "invalid message start event" /\ AccUnchanged
          ELSE /\ err' = Ok
               /\ response' # None
               /\ response'[1].ID = m[1].ID
               /\ response'[1].Role = m[1].Role
               /\ response'[1].Usage = m[1].Usage
               /\ Len(response'[1].Content) = Len(m[1].Content)]_vars

\* The snapshot msg_2 was adopted by the last call.
C8_Witness ==
    /\ LastEventIs("message_start") /\ err = Ok
    /\ event[1].Message # None /\ event[1].Message[1].ID = "msg_2"
    /\ response # None /\ response[1].ID = "msg_2"
    /\ response[1].Role = "assistant"

\* C9: once a message_start has been accepted, a later message_start is not
\* accepted and the working response is kept.
C9_OneMessageStart ==
    [][(Added /\ response # None /\ event'[1].Type = "message_start")
       => (err' # Ok /\ response' = response)]_vars

\* C10: an accepted content_block_start without an index keeps every stored
\* block and grows the map by exactly one.
C10_IndexlessStartAppends ==
    [][(Added /\ event'[1].Type = "content_block_start" /\ err' = Ok
          /\ event'[1].Index = None)
       => /\ \A k \in DOMAIN contentBlocks :
               k \in DOMAIN contentBlocks' /\ contentBlocks'[k] = contentBlocks[k]
          /\ Cardinality(DOMAIN contentBlocks')
               = Cardinality(DOMAIN contentBlocks) + 1]_vars

\* A step that is an accepted AddEvent call for an event of the given type.
AcceptedStep(type) == Added /\ event'[1].Type = type /\ err' = Ok

\* C11: a content_block_start with an explicit index i, given a working
\* response and a payload, returns nil; key i then holds a block created by
\* this call and seeded from the payload alone (nothing of a previous occupant
\* survives), and every other key holds the block it held, unchanged.
C11_ExplicitIndexReplaces ==
    [][(Added /\ event'[1].Type = "content_block_start" /\ response # None
          /\ event'[1].Index # None /\ event'[1].ContentBlock # None)
       => LET i == event'[1].Index[1]
              cb == event'[1].ContentBlock[1]
              ref == contentBlocks'[i]
          IN /\ err' = Ok
             /\ DOMAIN contentBlocks' = DOMAIN contentBlocks \cup {i}
             /\ PayloadKind(cb) = "nil" => ref = NilRef
             /\ PayloadKind(cb) # "nil" =>
                  /\ ref \in 1..Len(heap') /\ ref \notin 1..Len(heap)
                  /\ heap'[ref].kind = cb.Type
                  /\ heap'[ref].Text = (IF cb.Type = "text" THEN cb.Text ELSE "")
                  /\ heap'[ref].Input = ""
                  /\ heap'[ref].ID = (IF cb.Type = "tool_use" THEN cb.ID ELSE "")
                  /\ heap'[ref].Thinking
                       = (IF cb.Type = "thinking" THEN cb.Thinking ELSE "")
             /\ \A k \in DOMAIN contentBlocks \ {i} :
                  /\ contentBlocks'[k] = contentBlocks[k]
                  /\ contentBlocks[k] # NilRef
                       => heap'[contentBlocks[k]] = heap[contentBlocks[k]]]_vars

\* A start with an explicit index has just replaced a text block that had
\* grown to "Hello " by a fresh "Hello", next to a block at another index.
C11_Witness ==
    /\ LastEventIs("content_block_start") /\ err = Ok
    /\ event[1].Index # None
    /\ Cardinality(DOMAIN contentBlocks) >= 2
    /\ LET i == event[1].Index[1] IN
         /\ KindOf(heap, contentBlocks[i]) = "text"
         /\ heap[contentBlocks[i]].Text = "Hello"
         /\ \E r \in 1..Len(heap) :
              /\ \A k \in DOMAIN contentBlocks : contentBlocks[k] # r
              /\ heap[r].Text = "Hello "

RECURSIVE JSONOfDeltas(_)
\* The partial JSON of the input_json_delta events of a sequence of deltas,
\* in arrival order.
JSONOfDeltas(ds) ==
    IF ds = <<>> THEN ""
    ELSE (IF Head(ds).Type = "input_json_delta" THEN Head(ds).PartialJSON ELSE "")
         \o JSONOfDeltas(Tail(ds))

\* C12: a tool-use block carries the identifier and name of its start and an
\* input that is the partial JSON of the input_json_delta events accepted for
\* its index, concatenated in arrival order; the input the start payload
\* carried is no part of it.
C12_ToolInput ==
    \A k \in DOMAIN log :
        log[k].start.Type = "tool_use"
        => /\ KindOf(heap, contentBlocks[k]) = "tool_use"
           /\ heap[contentBlocks[k]].ID = log[k].start.ID
           /\ heap[contentBlocks[k]].Name = log[k].start.Name
           /\ heap[contentBlocks[k]].Input = JSONOfDeltas(log[k].deltas)

\* A start whose payload carried the input "{}", then two fragments.
C12_Witness ==
    \E k \in DOMAIN log :
        /\ log[k].start.Type = "tool_use" /\ log[k].start.Input = "{}"
        /\ Len(log[k].deltas) = 2
        /\ log[k].deltas[1].PartialJSON = "{\"q\":"
        /\ log[k].deltas[2].PartialJSON = "1}"
        /\ heap[contentBlocks[k]].Input = "{\"q\":1}"

\* An accepted thinking_delta or signature_delta addressed to a thinking block.
ThinkingStep ==
    /\ AcceptedStep("content_block_delta")
    /\ event'[1].Delta[1].Type \in {"thinking_delta", "signature_delta"}

\* C13, as stated: on a thinking block a signature_delta leaves the thinking
\* text as it was and a thinking_delta leaves the signature as it was.
C13_OwnFieldOnly ==
    [][ThinkingStep
       => LET d == event'[1].Delta[1]
              ref == contentBlocks[event'[1].Index[1]]
          IN /\ d.Type = "signature_delta"
                  => heap'[ref].Thinking = heap[ref].Thinking
             /\ d.Type = "thinking_delta"
                  => heap'[ref].Signature = heap[ref].Signature]_vars

\* C13, amended: on a thinking block a thinking_delta or signature_delta
\* appends the delta's thinking text to the thinking text and the delta's
\* signature to the signature, so a field the delta leaves empty is unchanged
\* and neither field is ever shortened or blanked.
C13_ThinkingAppend ==
    [][ThinkingStep
       => LET d == event'[1].Delta[1]
              ref == contentBlocks[event'[1].Index[1]]
          IN /\ heap'[ref].Thinking = heap[ref].Thinking \o d.Thinking
             /\ heap'[ref].Signature = heap[ref].Signature \o d.Signature]_vars

\* A thinking block seeded "Hm"/"s0" after a thinking_delta ".." and a
\* signature_delta "Sg", the last of which left the thinking text alone.
C13_Witness ==
    /\ LastEventIs("content_block_delta") /\ err = Ok
    /\ event[1].Delta # None /\ event[1].Delta[1].Type = "signature_delta"
    /\ event[1].Delta[1].Thinking = ""
    /\ event[1].Index # None /\ event[1].Index[1] \in DOMAIN contentBlocks
    /\ LET ref == contentBlocks[event[1].Index[1]] IN
         /\ KindOf(heap, ref) = "thinking"
         /\ heap[ref].Thinking = "Hm.."
         /\ heap[ref].Signature = "s0Sg"

\* C14: an accepted message_delta sets the stop reason (stop sequence) to the
\* delta's value when that value is non-empty and leaves it as it was when
\* the value is empty.
C14_StopFields ==
    [][(Added /\ event'[1].Type = "message_delta" /\ response # None
          /\ event'[1].Delta # None)
       => LET d == event'[1].Delta[1] IN
          /\ response' # None
          /\ response'[1].StopReason
               = (IF d.StopReason # "" THEN d.StopReason
                  ELSE response[1].StopReason)
          /\ response'[1].StopSequence
               = (IF d.StopSequence # "" THEN Some(d.StopSequence)
                  ELSE response[1].StopSequence)]_vars

\* A message_delta with both values empty has left a stop reason and a stop
\* sequence set by an earlier one in place.
C14_Witness ==
    /\ LastEventIs("message_delta") /\ err = Ok
    /\ event[1].Delta # None
    /\ event[1].Delta[1].StopReason = "" /\ event[1].Delta[1].StopSequence = ""
    /\ response # None
    /\ response[1].StopReason = "end_turn"
    /\ response[1].StopSequence = Some("END")

\* The blocks of a map, one per key, in ascending key order.
AscendingContent(blocks) ==
    LET K == DOMAIN blocks
    IN [p \in 1..Cardinality(K) |-> blocks[CHOOSE k \in K : Rank(K, k) = p]]

\* A Response() call that materialized the content.
Materialized == ~Added /\ response' # response

StopEvent == MkEvent("message_stop", None, None, None, None, None)

\* C15: a Response() call that materializes the content leaves the blocks in
\* ascending index order, which is the content a message_stop arriving next
\* produces; and in every state a second Response() call returns what the
\* first returned.
C15_ResponseFinalization ==
    /\ [](ResponseResult(ResponseResult(Acc)) = ResponseResult(Acc))
    /\ [][Materialized
          => /\ response'[1].Content = AscendingContent(contentBlocks)
             /\ response'[1].Content
                  = messageStop(Acc, StopEvent).response[1].Content
             /\ [response'[1] EXCEPT !.Content = <<>>]
                  = [response[1] EXCEPT !.Content = <<>>]]_vars

\* Response() was called before any message_stop, with index 2 started
\* before index 0, and materialized both blocks.
C15_Witness ==
    /\ ~complete /\ response # None /\ response[1].ID = FirstSnapshot.ID
    /\ DOMAIN contentBlocks = {0, 2}
    /\ contentBlocks[2] < contentBlocks[0] /\ contentBlocks[2] # NilRef
    /\ response[1].Content = <<contentBlocks[0], contentBlocks[2]>>

\* C16: between the message_start that brought a snapshot without content and
\* the message_stop, Response() returns a content with exactly one entry for
\* each index a block has been started at, in ascending index order.
C16_MidStreamSnapshot ==
    (response # None /\ response[1].ID = FirstSnapshot.ID /\ ~complete)
    => LET c == ResponseResult(Acc).response[1].Content
           K == DOMAIN log
       IN /\ Len(c) = Cardinality(K)
          /\ \A k \in K : Matches(c[Rank(K, k)], log[k])

\* C29: an AddEvent call that returns an error leaves the working response
\* (usage totals, stop reason and stop sequence included), the map from
\* index to block, every block and the completion flag as they were.
C29_ErrorLeavesState ==
    [][(Added /\ ReturnedError(err')) => (AccUnchanged /\ UNCHANGED usageSum)]_vars

C29_Witness ==
    /\ event # None
    /\ event[1].Type = "content_block_delta"
    /\ event[1].Usage # None
    /\ ReturnedError(err)
    /\ response # None
    /\ response[1].Usage # ZeroUsage
    /\ Cardinality(DOMAIN contentBlocks) > 0

NilBlock == MkBlock("nil", "", "", "", "", "", "")

\* The content of the response as a caller reads it: the blocks its
\* Content refers to, in order, with what they hold.
BlocksOf(resp, h) ==
    IF resp = None
    THEN <<>>
    ELSE [i \in DOMAIN resp[1].Content |->
             IF resp[1].Content[i] = NilRef THEN NilBlock ELSE h[resp[1].Content[i]]]

\* C30: once a message_stop has been processed, no AddEvent call changes
\* the content of the response: neither the sequence of blocks nor what a
\* block holds.
C30_StopFreezesContent ==
    [][(Added /\ complete) => BlocksOf(response', heap') = BlocksOf(response, heap)]_vars

\* The discriminants the switch of content_block_start has a case for.
RecognizedTypes == {"text", "tool_use", "thinking", "redacted_thinking"}

\* A content_block_start with a payload, given once a response exists.
StartStep ==
    /\ Added
    /\ event'[1].Type = "content_block_start"
    /\ event'[1].ContentBlock # None
    /\ response # None

\* C31: a content_block_start whose discriminant is none of text, tool_use,
\* thinking and redacted_thinking, given once a message_start was accepted,
\* returns nil and stores the nil block at its index (no other key changes);
\* after a message_stop the nil block is the entry of the content at the
\* position of that index among the stored indices.
C31_UnrecognizedStart ==
    /\ [][(StartStep /\ event'[1].ContentBlock[1].Type \notin RecognizedTypes)
           => LET key == StartKey(contentBlocks, event'[1].Index) IN
                /\ err' = Ok
                /\ DOMAIN contentBlocks' = DOMAIN contentBlocks \cup {key}
                /\ contentBlocks'[key] = NilRef
                /\ \A k \in DOMAIN contentBlocks \ {key} :
                       contentBlocks'[k] = contentBlocks[k]]_vars
    /\ [](LastEventIs("message_stop") /\ response # None
          => LET c == response[1].Content
                 K == DOMAIN contentBlocks
             IN \A k \in K :
                    contentBlocks[k] = NilRef
                    => Len(c) = Cardinality(K) /\ c[Rank(K, k)] = NilRef)

\* A server_tool_use start at index 0 and a text start at index 1 were
\* accepted, then message_stop: the content is <<nil, the text block>>.
C31_Witness ==
    /\ LastEventIs("message_stop") /\ response # None
    /\ DOMAIN log = {0, 1}
    /\ log[0].start.Type = "server_tool_use"
    /\ contentBlocks[0] = NilRef
    /\ Len(response[1].Content) = 2
    /\ response[1].Content[1] = NilRef
    /\ KindOf(heap, response[1].Content[2]) = "text"

\* C34: no AddEvent call panics: whatever the event and the state of the
\* accumulator, the call returns nil or an error.
C34_NeverCrashes ==
    (event # None) => (err = Ok \/ ReturnedError(err))

\* C35: a content_block_delta that returns nil, addressed to index i, leaves
\* the map from index to block as it was (the same indices, the same block
\* object at each), every block object other than the one at index i, the
\* stop reason, the stop sequence and the completion flag.
C35_DeltaTouchesOneBlock ==
    [][AcceptedStep("content_block_delta")
       => LET i == event'[1].Index[1] IN
            /\ contentBlocks' = contentBlocks
            /\ DOMAIN heap' = DOMAIN heap
            /\ \A ref \in DOMAIN heap \ {contentBlocks[i]} : heap'[ref] = heap[ref]
            /\ response'[1].StopReason = response[1].StopReason
            /\ response'[1].StopSequence = response[1].StopSequence
            /\ complete' = complete]_vars

\* Deltas were merged into the block at index 0 and then into the block at
\* index 1; each block holds its own seed and delta only.
C35_Witness ==
    /\ LastEventIs("content_block_delta") /\ err = Ok
    /\ event[1].Index = Some(1)
    /\ DOMAIN log = {0, 1}
    /\ Len(log[0].deltas) = 1 /\ Len(log[1].deltas) = 1
    /\ contentBlocks[0] # contentBlocks[1]
    /\ heap[contentBlocks[0]].Text = "Hello "
    /\ heap[contentBlocks[1]].Text = "Hello "

\* C36 (web-search flow): an input_json_delta addressed to an index whose
\* last start was of type server_tool_use returns nil, and the block at that
\* index then holds, as its input, the partial JSON of the deltas accepted
\* for the index, in arrival order.
C36_ServerToolUseInput ==
    [][(/\ Added
        /\ response # None
        /\ event'[1].Type = "content_block_delta"
        /\ event'[1].Delta # None
        /\ event'[1].Index # None
        /\ event'[1].Delta[1].Type = "input_json_delta"
        /\ event'[1].Index[1] \in DOMAIN log
        /\ log[event'[1].Index[1]].start.Type = "server_tool_use")
       => LET i == event'[1].Index[1] IN
            /\ err' = Ok
            /\ KindOf(heap', contentBlocks'[i]) # "nil"
            /\ heap'[contentBlocks'[i]].Input = JSONOfDeltas(log'[i].deltas)]_vars

\* The delta types the switch of content_block_delta has a case for.
MergedDeltaTypes ==
    {"text_delta", "input_json_delta", "thinking_delta", "signature_delta"}

\* A content_block_delta with a delta of a type without a case, addressed to
\* an index that holds a block, given once a response exists.
UnmergedDeltaStep ==
    /\ Added
    /\ response # None
    /\ event'[1].Type = "content_block_delta"
    /\ event'[1].Delta # None
    /\ event'[1].Index # None
    /\ event'[1].Delta[1].Type \notin MergedDeltaTypes
    /\ event'[1].Index[1] \in DOMAIN contentBlocks

ReadStep == nReads' = nReads + 1

\* What is left of a line once its "data: " prefix, if it starts with one,
\* and then the whitespace around it are taken away.
Stripped(line) == TrimSpace(TrimPrefix(line, DataPrefix))

RECURSIVE EventsOf(_)
\* The events of the lines that begin with '{' once stripped, in line order.
EventsOf(ls) ==
    IF ls = <<>> THEN <<>>
    ELSE LET b == Stripped(Head(ls)) IN
         (IF HasPrefix(b, <<"{">>) /\ Unmarshal(b).err = Ok
          THEN <<Unmarshal(b).event>> ELSE <<>>)
         \o EventsOf(Tail(ls))

\* The first Next() to return false has just done so.
FirstStop == Len(stops) = 1 /\ ret = "false"

\* C17 (SSE reader filtering): until Next() first returns false, the events
\* it has returned are, in line order, exactly the decoded lines that begin
\* with '{' once the optional "data: " prefix and the surrounding whitespace
\* are removed (the prefix from the line as read, then the whitespace); blank
\* lines and all other lines give nothing; and when Next() returns false on
\* a [DONE] line or at the end of the stream, Err() is nil.
C17_Filtering ==
    /\ stops = <<>>
         => /\ decoded = EventsOf(raw)
            /\ \A i \in 1..Len(raw) : Stripped(raw[i]) # Done
            /\ body # "eof"
            /\ readerErr = Ok
    /\ (FirstStop /\ stops[1] \in {"done", "eof"})
         => /\ decoded = EventsOf(raw)
            /\ readerErr = Ok
            /\ config.client = "iterator" => iterErr = Ok

\* A comment or blank line, an event line and the [DONE] line were read: one
\* event was returned, then false with a nil Err().
C17_Witness ==
    /\ FirstStop /\ stops[1] = "done"
    /\ Len(raw) = 3
    /\ ~HasPrefix(Stripped(raw[1]), <<"{">>)
    /\ HasPrefix(raw[2], DataPrefix)
    /\ raw[3] = DoneLine
    /\ Len(decoded) = 1 /\ decoded[1].Type = "ping"
    /\ readerErr = Ok

\* C18: when a line that looks like JSON fails to decode, Next() returns
\* false and Err() (of the reader, and of the iterator over it) is that
\* error; and once that has happened no later Next() returns an event.
C18_DecodeFailureTerminal ==
    [][ReadStep
       => /\ (Len(stops') > Len(stops) /\ stops'[Len(stops')] = "decode")
               => /\ ret' = "false"
                  /\ readerErr' = DecodeError
                  /\ config.client = "iterator" => iterErr' = DecodeError
          /\ (\E i \in 1..Len(stops) : stops[i] = "decode")
               => ret' # "true"]_vars

\* The events the reader returned that carry a type.
Typed == LET HasType(e) == e.Type # "" IN SelectSeq(decoded, HasType)

\* What the iterator surfaced is what the reader returned, with the prefill
\* put in front of the text of the first event among those at positions T.
SurfacedWithPrefillAt(T) ==
    /\ Len(surfaced) = Len(Typed)
    /\ \A i \in 1..Len(Typed) :
         IF i \in T /\ \A j \in T : i <= j
         THEN /\ surfaced[i].ContentBlock[1].Text
                   = config.prefill \o Typed[i].ContentBlock[1].Text
              /\ [surfaced[i] EXCEPT !.ContentBlock = None]
                   = [Typed[i] EXCEPT !.ContentBlock = None]
              /\ [surfaced[i].ContentBlock[1] EXCEPT !.Text = ""]
                   = [Typed[i].ContentBlock[1] EXCEPT !.Text = ""]
         ELSE surfaced[i] = Typed[i]
    /\ prefill = (IF T = {} THEN config.prefill ELSE "")

\* C19 (P5, prefill exactly once): with a prefill and no closing tag, the
\* first content_block_start of a text block the iterator surfaces has the
\* prefill in front of its text, once; every other event, later text starts
\* included, is surfaced as the reader returned it.
C19_PrefillOnce ==
    (config.client = "iterator" /\ config.prefill # ""
       /\ config.prefillClosingTag = "")
    => SurfacedWithPrefillAt({i \in 1..Len(Typed) : IsTextStart(Typed[i])})

\* Two text blocks were started: the first carries the prefill, the second
\* does not.
C19_Witness ==
    /\ config.prefill = "P" /\ config.prefillClosingTag = ""
    /\ \E i, j \in 1..Len(surfaced) :
         /\ i < j
         /\ IsTextStart(surfaced[i]) /\ IsTextStart(surfaced[j])
         /\ surfaced[i].ContentBlock[1].Text = "Pa</r"
         /\ surfaced[j].ContentBlock[1].Text = TaggedText

Returned(c) == c.ret \notin {"running", "waiting"}

\* C21 (P4, idempotent close): however the Close() calls of several
\* goroutines and the close inside a Next() that returns false interleave,
\* body.Close() is executed at most once, and exactly once as soon as one of
\* them has returned; at most one Close() call is the first, and every
\* other call returns nil.
C21_IdempotentClose ==
    config.client = "iterator"
    => /\ bodyCloses <= 1
       /\ ((\E i \in 1..Len(closeCalls) : Returned(closeCalls[i])) \/ stops # <<>>)
            => bodyCloses = 1
       /\ Cardinality({i \in 1..Len(closeCalls) : closeCalls[i].first}) <= 1
       /\ \A i \in 1..Len(closeCalls) :
            (Returned(closeCalls[i]) /\ ~closeCalls[i].first)
            => closeCalls[i].ret = Ok

\* Two Close() calls overlapped, the first returned the error of
\* body.Close(), the second waited and returned nil, and a Next() returned
\* false afterwards: one execution of body.Close() in all.
C21_Witness ==
    /\ Len(closeCalls) = 2
    /\ closeCalls[1].first /\ closeCalls[1].ret = CloseError
    /\ closeCalls[2].waited /\ closeCalls[2].ret = Ok
    /\ stops # <<>> /\ ret = "false"
    /\ bodyCloses = 1

\* C22: retry.Do stops at the first call of f that returns nil (and returns
\* nil) or a non-recoverable error (and returns that error), calling f no
\* more; while every call returns a recoverable error and the context is
\* live it returns exactly after call number MaxRetries+1, with the error of
\* that call.
C22_RetryUntilSettled ==
    /\ [](nCalls > 0 =>
            /\ fErr = NilError => (doPC = "done" /\ doRet = NilError)
            /\ (fErr # NilError /\ ~IsRecoverable(fErr)) => (doPC = "done" /\ doRet = fErr)
            /\ (IsRecoverable(fErr) /\ ctxErr = NilError) =>
                  /\ nCalls <= retryConfig.MaxRetries + 1
                  /\ (doPC = "done") = (nCalls = retryConfig.MaxRetries + 1)
                  /\ doPC = "done" => (doRet = fErr /\ doRet = lastError))
    /\ [][doPC = "done" => nCalls' = nCalls]_vars

C22_Witness ==
    /\ doPC = "done"
    /\ retryConfig.MaxRetries = MaxRetriesOption
    /\ nCalls = MaxRetriesOption + 1
    /\ fErr = NewError(StatusServiceUnavailable)
    /\ doRet = fErr
    /\ ctxErr = NilError

\* C23: once the context has been cancelled, retry.Do makes no further call
\* of f, and when it returns it returns the context's error.
C23_HaltsOnCancellation ==
    [][ctxErr # NilError =>
         /\ nCalls' = nCalls
         /\ (doPC # "done" /\ doPC' = "done") => doRet' = ctxErr]_vars

RetryStatuses ==
    {StatusTooManyRequests, StatusInternalServerError, StatusServiceUnavailable,
     StatusGatewayTimeout, StatusCloudflare}

\* C24: ShouldRetry is true for exactly 429, 500, 503, 504 and 520 among the
\* status codes, an API error's IsRecoverable() is ShouldRetry of its status
\* code, and retry.Do goes on after an API error exactly for those codes.
C24_ShouldRetry ==
    /\ \A s \in StatusCodes :
         /\ ShouldRetry(s) = (s \in RetryStatuses)
         /\ LinkIsRecoverable(ProviderError(s)) = ShouldRetry(s)
    /\ \A s \in StatusCodes :
         (nCalls > 0 /\ fErr = NewError(s)) =>
             /\ fRecoverable = (s \in RetryStatuses)
             /\ s \notin RetryStatuses => (doPC = "done" /\ doRet = fErr)

C24_Witness ==
    /\ fErr = NewError(StatusCloudflare)
    /\ fRecoverable
    /\ doPC = "select"
    /\ nCalls = MaxRetriesOption

\* reorderMessageContent has run on messages: called directly, or inside a
\* conversion that went through.
Reordered == call.fn = "reorderMessageContent" \/ converted # None

Position(content, ref) == CHOOSE j \in DOMAIN content : content[j] = ref

\* after is a stable partition of before: the same blocks, no tool_use block
\* ahead of another block, each group in the order it had.
StablePartition(before, after, h) ==
    /\ Len(after) = Len(before)
    /\ {after[j] : j \in DOMAIN after} = {before[j] : j \in DOMAIN before}
    /\ \A j, k \in DOMAIN after :
         (j < k /\ IsToolUse(h, after[j])) => IsToolUse(h, after[k])
    /\ \A j, k \in DOMAIN before :
         (j < k /\ IsToolUse(h, before[j]) = IsToolUse(h, before[k]))
             => Position(after, before[j]) < Position(after, before[k])

Uniform(content, h) ==
    \A j, k \in DOMAIN content : IsToolUse(h, content[j]) = IsToolUse(h, content[k])

\* C25: reorderMessageContent leaves each assistant message a stable
\* partition of what it was, tool_use blocks last; a message of another
\* role, of one block or of blocks of one group is exactly as it was; no
\* block object is changed.
C25_StablePartition ==
    Reordered =>
        /\ Len(messages) = Len(given.messages)
        /\ SubSeq(blockHeap, 1, Len(given.heap)) = given.heap
        /\ \A i \in DOMAIN messages :
             LET before == given.messages[i].Content
                 after == messages[i].Content
             IN /\ messages[i].Role = given.messages[i].Role
                /\ messages[i].Role = Assistant => StablePartition(before, after, given.heap)
                /\ (\/ messages[i].Role # Assistant
                    \/ Len(before) < 2
                    \/ Uniform(before, given.heap)) => after = before

C25_Witness ==
    /\ call.fn = "reorderMessageContent"
    /\ Len(messages) = 2
    /\ given.messages[1].Role = Assistant
    /\ given.messages[1].Content = <<1, 2, 3, 4>>
    /\ messages[1].Content = <<2, 4, 1, 3>>
    /\ blockHeap[2] # blockHeap[4]
    /\ messages[2].Content # given.messages[2].Content

\* C26: addPrefill with an empty prefill changes nothing and returns nil;
\* otherwise it puts the prefill once in front of the text of the first text
\* block when the closing tag is empty or in that text, and returns
\* "prefill closing tag not found" when it is not, "no text content found
\* in message" when there is no text block; no other block changes, and no
\* block at all when an error is returned.
C26_AddPrefill ==
    call.fn = "addPrefill" =>
        LET content == given.messages[call.target].Content
            t == FirstText(content, given.heap)
        IN /\ messages = given.messages
           /\ Len(blockHeap) = Len(given.heap)
           /\ call.prefill = "" => (callErr = NilError /\ blockHeap = given.heap)
           /\ (call.prefill # "" /\ t = 0) =>
                 /\ ErrorText(callErr) = "no text content found in message"
                 /\ blockHeap = given.heap
           /\ (call.prefill # "" /\ t # 0) =>
                 IF call.closingTag = "" \/ Contains(given.heap[content[t]].Text, call.closingTag)
                 THEN /\ callErr = NilError
                      /\ blockHeap =
                            [given.heap EXCEPT ![content[t]].Text = call.prefill \o @]
                 ELSE /\ ErrorText(callErr) = "prefill closing tag not found"
                      /\ blockHeap = given.heap

C26_Witness ==
    /\ call = MkCall("addPrefill", 1, "P", ClosingTag)
    /\ callErr = NilError
    /\ Len(given.heap) > 2
    /\ given.heap[1].kind = ContentTypeToolUse
    /\ given.heap[2] = TextContent(TaggedText)
    /\ given.heap[3] = TextContent(TaggedText)
    /\ blockHeap[2].Text = "P" \o TaggedText
    /\ blockHeap[3].Text = TaggedText

\* The list given to the call is empty or has a message without content.
Invalid == given.messages = <<>> \/ EmptyMessages(given.messages) # {}

\* The message of the error convertMessages returns for it.
ConversionError ==
    IF given.messages = <<>>
    THEN "no messages provided"
    ELSE "empty message detected (index "
         \o ToString((CHOOSE i \in EmptyMessages(given.messages) :
                         \A j \in EmptyMessages(given.messages) : i <= j) - 1)
         \o ")"

\* The call was given an invalid list: it has returned, with no result from
\* the conversion and no HTTP request made.
Rejected ==
    /\ callPC = "returned"
    /\ converted = None
    /\ nCalls = 0
    /\ doPC = "idle"

\* C27 (as stated): for an empty list or a message with empty content
\* convertMessages returns an error and a nil result, and Generate and Stream
\* return that very error without any HTTP request.
C27_ReturnsThatError ==
    (call.fn \in {"convertMessages", "Generate", "Stream"} /\ Invalid) =>
        /\ Rejected
        /\ callErr = errorsNew(ConversionError)

\* C27 (amended): the same, except that Stream returns the error wrapped
\* with the prefix "error converting messages: ".
C27_RejectsBeforeRequest ==
    (call.fn \in {"convertMessages", "Generate", "Stream"} /\ Invalid) =>
        /\ Rejected
        /\ call.fn # "Stream" => callErr = errorsNew(ConversionError)
        /\ call.fn = "Stream" =>
              /\ Tail(callErr) = errorsNew(ConversionError)
              /\ ErrorText(callErr) = "error converting messages: " \o ConversionError

C27_Witness ==
    /\ call.fn = "Stream"
    /\ Len(given.messages) = 2
    /\ given.messages[2].Content = <<>>
    /\ ErrorText(callErr) = "error converting messages: empty message detected (index 1)"
    /\ Rejected
    /\ messages = given.messages

\* The tags UnmarshalContent has a case for.
KnownContentTypes ==
    {ContentTypeText, ContentTypeRefusal, ContentTypeToolUse, ContentTypeToolResult,
     ContentTypeThinking, ContentTypeRedactedThinking} \cup OtherContentTypes

\* UnmarshalContent has been called on the JSON in wire.
DecodeTried == wire # None /\ codecPC \in {"decoded", "failed"}

\* A JSON object whose tag has no case yields an error and no block.
UnknownTagFails ==
    (DecodeTried /\ Get(wire[1], "type", "") \notin KnownContentTypes) =>
        (codecPC = "failed" /\ unmarshalled = None /\ codecErr # NilError)

WellTyped(b) ==
    b.variant = "TextContent" =>
        \A i \in DOMAIN b.Citations :
            b.Citations[i].Type = (IF b.Citations[i].struct = "CharLocation"
                                   THEN CitationTypeCharLocation
                                   ELSE CitationTypeWebSearchResultLocation)

\* b with its raw input read as compacted JSON (null when nil) and its
\* tool result content as generic decoded JSON.
AsJSON(b) ==
    CASE b.variant = "ToolUseContent" ->
           [b EXCEPT !.Input = Some(IF @ = None THEN <<"null">> ELSE Compact(@[1]))]
      [] b.variant = "ToolResultContent" ->
           [b EXCEPT !.Content = MkAny(IF @.goType \in {"nil", "string"} THEN @.goType
                                       ELSE "[]interface {}", @.items)]
      [] OTHER -> b

Stopped(cause) == \E i \in 1..Len(stops) : stops[i] = cause

\* C32: once Next() has returned false on a [DONE] line, no later line is
\* delivered as an event, and once Next() has returned false for whatever
\* cause, no later Next() of the same reader or iterator returns true.
C32_DoneEndsStream ==
    [][ReadStep
       => /\ Stopped("done")
               => (ret' # "true" /\ decoded' = decoded /\ surfaced' = surfaced)
          /\ stops # <<>> => ret' # "true"]_vars

\* C33 (guaranteed release): when StreamIterator.Next() has returned false,
\* for whatever cause, body.Close() has been executed and has returned,
\* whether or not the caller ever called Close().
C33_ReleasedOnFalse ==
    (config.client = "iterator" /\ ret = "false")
    => /\ bodyCloses >= 1
       /\ closeOnce
       /\ body \in {"closed", "drained"}
       /\ ~Closing

\* Next() returned false on a line that failed to decode; Close() was never
\* called by the caller, and the body was closed once.
C33_Witness ==
    /\ config.client = "iterator" /\ ret = "false"
    /\ stops = <<"decode">>
    /\ closeCalls = <<>>
    /\ bodyCloses = 1
    /\ body = "closed"

\* C38: when retry.Do has returned, f has been called at least once,
\* whatever the options, and when it has returned nil the last call of f
\* returned nil.
C38_NilOnlyAfterSuccess ==
    (doPC = "done")
    => /\ nCalls >= 1
       /\ doRet = NilError => fErr = NilError

\* Everything ReadBytes handed over: the complete lines, then the data that
\* came with its last error (a final line without its newline), if any.
Received == raw \o (IF unterminated = <<>> THEN <<>> ELSE <<unterminated>>)

\* C39: when Next() first returns false because the underlying stream has
\* ended, the reader has returned the event of every JSON line received
\* before the end, a final line that lacks its newline included.
C39_NothingLostAtEOF ==
    (FirstStop /\ stops[1] = "eof") => decoded = EventsOf(Received)

\* What the content of a message holds: its blocks, in order, by value.
BlockValues(content, h) == [j \in DOMAIN content |-> h[content[j]]]

\* C40 (convertMessages works on copies): after a successful conversion
\* every input message has the ID, the role and the content blocks, in the
\* order, it had before the call, and no block has changed; the returned
\* messages have the same roles, no ID, and the reordered content.
C40_WorksOnCopies ==
    (converted # None)
    => /\ messages = given.messages
       /\ \A ref \in DOMAIN given.heap : blockHeap[ref] = given.heap[ref]
       /\ Len(converted[1]) = Len(given.messages)
       /\ \A i \in DOMAIN given.messages :
              /\ converted[1][i].Role = given.messages[i].Role
              /\ converted[1][i].ID = ""
              /\ BlockValues(converted[1][i].Content, blockHeap)
                   = BlockValues(reorderMessage(given.messages[i], given.heap).Content,
                                 given.heap)

====
